---------------------------- MODULE Spec2Model ----------------------------
(***************************************************************************)
(* A model of the stack VM of darksv/interpreter: the loader of            *)
(* src/loader.rs and the executor of src/interpreter.rs.                   *)
(*                                                                         *)
(* Words are u32 in the source.  TLC's integers are 32-bit signed, so the  *)
(* word is modelled at WordBits bits: every conversion and every wrap is   *)
(* written against WordBits, SignBit and MaxWord exactly as the source     *)
(* does against 32, 2^31 and 2^32-1.                                       *)
(***************************************************************************)
EXTENDS Integers, Sequences, FiniteSets, TLC

VARIABLES
    source,           \* the lines of the file Loader::load reads
    line_no,          \* how many lines Loader::load has consumed
    loader,           \* the Loader struct
    asm,              \* the Assembly handed to execute_assembly
    call_stack,       \* execute_assembly's call_stack
    phase,            \* where the process is: loading, running, done, fault
    fault,            \* the panic that ended the process, or "none"
    overflow_checks,  \* the build profile: TRUE debug, FALSE release
    out,              \* what was written to stdout/stderr, in order
    pushed,           \* frames put on call_stack so far
    popped,           \* frames taken off call_stack so far
    steps             \* executor steps taken so far

vars == <<source, line_no, loader, asm, call_stack, phase, fault,
          overflow_checks, out, pushed, popped, steps>>

loadVars == <<source, line_no, loader>>

-----------------------------------------------------------------------------
(* Bounds of the model *)

WordBits == 8
MaxSteps == 20

RECURSIVE Pow2(_)
Pow2(n) == IF n = 0 THEN 1 ELSE 2 * Pow2(n - 1)

WordMod == Pow2(WordBits)
SignBit == Pow2(WordBits - 1)
MaxWord == WordMod - 1

-----------------------------------------------------------------------------
(* Option<T> *)

None == <<>>
Some(x) == <<x>>
IsSome(o) == o # <<>>
Unwrap(o) == o[1]

(* Vec<T>::pop as the pair (popped value, rest) *)
Last(s) == s[Len(s)]
Front(s) == SubSeq(s, 1, Len(s) - 1)

-----------------------------------------------------------------------------
(* instructions.rs *)

BinaryOps == {"add_u", "add_s", "sub_u", "sub_s", "mul_u", "mul_s", "div_u", "div_s"}
SignedOps == {"add_s", "sub_s", "mul_s", "div_s"}

Inst(op, arg) == [op |-> op, arg |-> arg]
I0(op) == Inst(op, 0)

(* assembly.rs *)

ManagedFuncDef(name, args, returns, default_locals, body) ==
    [kind |-> "Managed", name |-> name, args |-> args, returns |-> returns,
     default_locals |-> default_locals, body |-> body]

NativeFuncDef(name, args, returns) ==
    [kind |-> "Native", name |-> name, args |-> args, returns |-> returns]

Assembly(entry, functions) == [entry |-> entry, functions |-> functions]


-----------------------------------------------------------------------------
(* interpreter.rs: frames *)

(* ManagedCallFrame::with_locals *)
WithLocals(locals) == [program_counter |-> 0, stack |-> <<>>, locals |-> locals]

(* ManagedCallFrame::by_func *)
ByFunc(def) == WithLocals(def.default_locals)

(* CallFrame::Managed(&def, frame) and CallFrame::Native(&def); the reference
   to the definition is its index in asm.functions (1-based here) *)
ManagedFrame(func, frame) == [kind |-> "Managed", func |-> func, frame |-> frame]
NativeFrame(func) == [kind |-> "Native", func |-> func]

Panic(why) == [fault |-> why]

(* the loop of create_frame_for_callee: for idx in 0..callee.args
   { locals[idx] = self.stack.pop().unwrap() } *)
RECURSIVE PopArgs(_, _, _, _)
PopArgs(stack, locals, idx, args) ==
    IF idx >= args THEN [fault |-> "none", stack |-> stack, locals |-> locals]
    ELSE IF stack = <<>> THEN Panic("pop on empty stack")
    ELSE IF idx + 1 > Len(locals) THEN Panic("index out of bounds")
    ELSE PopArgs(Front(stack), [locals EXCEPT ![idx + 1] = Last(stack)], idx + 1, args)

(* the same loop filling the argument slots from the last down *)
CreateFrameReversed(caller_frame, callee) ==
    LET n == callee.args
        s == caller_frame.stack
    IN  IF Len(s) < n THEN Panic("pop on empty stack")
        ELSE IF Len(callee.default_locals) < n THEN Panic("index out of bounds")
        ELSE [fault |-> "none",
              caller |-> [caller_frame EXCEPT !.stack = SubSeq(s, 1, Len(s) - n)],
              callee |-> WithLocals([i \in 1..Len(callee.default_locals) |->
                            IF i <= n THEN s[Len(s) - n + i]
                            ELSE callee.default_locals[i]])]

(* ManagedCallFrame::create_frame_for_callee: the caller's frame after the
   pops, and the callee's new frame *)
CreateFrameForCallee(caller_frame, callee) ==
    LET r == PopArgs(caller_frame.stack, callee.default_locals, 0, callee.args)
    IN  IF r.fault # "none" THEN Panic(r.fault)
        ELSE [fault |-> "none",
              caller |-> [caller_frame EXCEPT !.stack = r.stack],
              callee |-> WithLocals(r.locals)]

-----------------------------------------------------------------------------
(* interpreter.rs: binary *)

(* FromPrimitive::from_u32 for u32 and for i32: i32 holds no word >= 2^31 *)
FromU32(signed, w) == IF signed /\ w >= SignBit THEN None ELSE Some(w)

(* ToPrimitive::to_u32 of a u32 or of an i32: no negative value is a u32 *)
ToU32(signed, r) == IF signed /\ r < 0 THEN None ELSE Some(r)

InRange(signed, r) ==
    IF signed THEN -SignBit <= r /\ r <= SignBit - 1 ELSE 0 <= r /\ r <= MaxWord

(* two's-complement wrap of the exact result, as a release build computes it *)
Wrap(signed, r) ==
    IF signed THEN ((r + SignBit) % WordMod) - SignBit ELSE r % WordMod

Exact(op, a, b) ==
    CASE op \in {"add_u", "add_s"} -> a + b
      [] op \in {"sub_u", "sub_s"} -> a - b
      [] op \in {"mul_u", "mul_s"} -> a * b
      [] op \in {"div_u", "div_s"} -> a \div b

(* a division that yields 0 for a zero divisor *)
ArithNoDivCheck(op, a, b, checks) ==
    LET signed == op \in SignedOps
        r == IF op \in {"div_u", "div_s"} /\ b = 0 THEN 0 ELSE Exact(op, a, b)
    IN  IF InRange(signed, r) THEN [fault |-> "none", v |-> r]
        ELSE IF checks THEN Panic("arithmetic overflow")
        ELSE [fault |-> "none", v |-> Wrap(signed, r)]

(* the closures |a, b| a + b, a - b, a * b, a / b of step_managed on the
   operand type; the operands are never negative (FromU32), so the truncating
   division of the source is \div *)
Arith(op, a, b, checks) ==
    LET signed == op \in SignedOps
    IN  IF op \in {"div_u", "div_s"} /\ b = 0 THEN Panic("divide by zero")
        ELSE LET r == Exact(op, a, b)
             IN  IF InRange(signed, r) THEN [fault |-> "none", v |-> r]
                 ELSE IF checks THEN Panic("arithmetic overflow")
                 ELSE [fault |-> "none", v |-> Wrap(signed, r)]

(* operator(value1, value2): the operands the other way round *)
OperateSwapped(op, value2, value1, checks) == Arith(op, value1, value2, checks)

(* line 163: operator(value2, value1) *)
Operate(op, value2, value1, checks) == Arith(op, value2, value1, checks)

(* binary::<T>: the frame after the operation, or the panic *)
Binary(frame, op, checks) ==
    LET signed == op \in SignedOps
        s == frame.stack
    IN  IF Len(s) < 1 THEN Panic("pop on empty stack")
        ELSE IF ~IsSome(FromU32(signed, Last(s))) THEN Panic("from_u32")
        ELSE IF Len(s) < 2 THEN Panic("pop on empty stack")
        ELSE IF ~IsSome(FromU32(signed, s[Len(s) - 1])) THEN Panic("from_u32")
        ELSE LET value2 == Unwrap(FromU32(signed, Last(s)))
                 value1 == Unwrap(FromU32(signed, s[Len(s) - 1]))
                 r == Operate(op, value2, value1, checks)
             IN  IF r.fault # "none" THEN Panic(r.fault)
                 ELSE IF ~IsSome(ToU32(signed, r.v)) THEN Panic("to_u32")
                 ELSE [fault |-> "none",
                       frame |-> [frame EXCEPT !.stack =
                           Append(SubSeq(s, 1, Len(s) - 2), Unwrap(ToU32(signed, r.v)))]]

-----------------------------------------------------------------------------
(* interpreter.rs: step_managed *)

Advance(frame) == [frame EXCEPT !.program_counter = @ + 1]

Yield(status, frame) == [fault |-> "none", status |-> status, frame |-> frame, idx |-> 0]

(* the instruction step_managed is about to execute; positions are 0-based in
   the source and body is 1-based here *)
Fetch(function, frame) == function.body[frame.program_counter + 1]

AtEnd(function, frame) == frame.program_counter >= Len(function.body)

(* Inst::beq *)
StepBeq(frame, target) ==
    LET s == frame.stack
    IN  IF Len(s) < 2 THEN Panic("pop on empty stack")
        ELSE LET value2 == Last(s)
                 value1 == s[Len(s) - 1]
                 popped2 == [frame EXCEPT !.stack = SubSeq(s, 1, Len(s) - 2)]
             IN  IF value1 = value2
                 THEN Yield("Normal", [popped2 EXCEPT !.program_counter = target])
                 ELSE Yield("Normal", Advance(popped2))

(* an ldarg that pushes 0 for a local that does not exist *)
StepLdargOrZero(frame, n) ==
    IF n + 1 > Len(frame.locals)
    THEN Yield("Normal", Advance([frame EXCEPT !.stack = Append(@, 0)]))
    ELSE Yield("Normal", Advance([frame EXCEPT !.stack = Append(@, frame.locals[n + 1])]))

(* Inst::ldarg *)
StepLdarg(frame, n) ==
    IF n + 1 > Len(frame.locals) THEN Panic("index out of bounds")
    ELSE Yield("Normal", Advance([frame EXCEPT !.stack = Append(@, frame.locals[n + 1])]))

(* a starg that stores nothing when the stack is empty *)
StepStargLenient(frame, n) ==
    IF frame.stack = <<>> THEN Yield("Normal", Advance(frame))
    ELSE IF n + 1 > Len(frame.locals) THEN Panic("index out of bounds")
    ELSE Yield("Normal", Advance([frame EXCEPT !.stack = Front(@),
                                               !.locals[n + 1] = Last(frame.stack)]))

(* Inst::starg *)
StepStarg(frame, n) ==
    IF frame.stack = <<>> THEN Panic("pop on empty stack")
    ELSE IF n + 1 > Len(frame.locals) THEN Panic("index out of bounds")
    ELSE Yield("Normal", Advance([frame EXCEPT !.stack = Front(@),
                                               !.locals[n + 1] = Last(frame.stack)]))

(* a breakpoint that leaves the program counter on itself *)
StepBreakpointStays(frame) == Yield("Breakpoint", frame)

(* a breakpoint that ends the function *)
StepBreakpointReturns(frame) == Yield("Return", Advance(frame))

(* Inst::breakpoint *)
StepBreakpoint(frame) == Yield("Breakpoint", Advance(frame))

(* a call that leaves the program counter on the call instruction *)
StepCallStays(frame, idx) == [Yield("Call", frame) EXCEPT !.idx = idx]

(* Inst::call *)
StepCall(frame, idx) == [Yield("Call", Advance(frame)) EXCEPT !.idx = idx]

(* an end of body that is no return: the frame stays where it is *)
StepEndStays(frame) == Yield("Normal", frame)

(* the program counter at or past the end of the body *)
StepEnd(frame) == Yield("Return", frame)

(* step_managed: the status it returns and the frame it leaves, or the panic *)
StepManaged(function, frame, checks) ==
    IF AtEnd(function, frame) THEN StepEnd(frame)
    ELSE LET inst == Fetch(function, frame)
         IN  CASE inst.op \in BinaryOps ->
                    LET r == Binary(frame, inst.op, checks)
                    IN  IF r.fault # "none" THEN Panic(r.fault)
                        ELSE Yield("Normal", Advance(r.frame))
               [] inst.op = "jump" ->
                    Yield("Normal", [frame EXCEPT !.program_counter = inst.arg])
               [] inst.op = "beq" -> StepBeq(frame, inst.arg)
               [] inst.op = "ldarg" -> StepLdarg(frame, inst.arg)
               [] inst.op = "starg" -> StepStarg(frame, inst.arg)
               [] inst.op = "call" -> StepCall(frame, inst.arg)
               [] inst.op = "ret" -> Yield("Return", Advance(frame))
               [] inst.op = "breakpoint" -> StepBreakpoint(frame)

-----------------------------------------------------------------------------
(* interpreter.rs: what execute_assembly writes *)

(* line 73 *)
CallEvent(callee, caller) == [ev |-> "call", callee |-> callee, caller |-> caller]

(* lines 102 and 104, with the frame that was dropped *)
ReturnEvent(name, result, frame) ==
    [ev |-> "return", name |-> name, result |-> result,
     stack |-> frame.stack, locals |-> frame.locals]

(* line 125 *)
NativeReturnEvent(name) == [ev |-> "native return", name |-> name]

(* print_managed_debug_info: the position marked, the stack, the locals *)
Snapshot(frame) ==
    [ev |-> "breakpoint", pc |-> frame.program_counter,
     stack |-> frame.stack, locals |-> frame.locals]

-----------------------------------------------------------------------------
(* interpreter.rs: execute_assembly *)

(* a state of the executor: the call stack, the panic if any, and what the
   step wrote, pushed and popped *)
Exec(cs, why, events, pushes, pops) ==
    [call_stack |-> cs, fault |-> why, events |-> events,
     pushes |-> pushes, pops |-> pops]

Crash(cs, why) == Exec(cs, why, <<>>, 0, 0)

ReplaceTop(cs, frame) == [cs EXCEPT ![Len(cs)].frame = frame]

(* the return slot read at index 0 *)
FinishManagedCallSlot0(rest, callee, callee_frame) ==
    IF callee.returns
    THEN IF Len(callee_frame.locals) < 1 THEN Crash(rest, "index out of bounds")
         ELSE LET result == callee_frame.locals[1]
                  ev == <<ReturnEvent(callee.name, Some(result), callee_frame)>>
              IN  IF rest = <<>> THEN Exec(rest, "none", ev, 0, 1)
                  ELSE Exec(ReplaceTop(rest, [Last(rest).frame EXCEPT !.stack = Append(@, result)]),
                            "none", ev, 0, 1)
    ELSE Exec(rest, "none", <<ReturnEvent(callee.name, None, callee_frame)>>, 0, 1)

(* a return that hands the callee's whole operand stack to the caller *)
FinishManagedCallKeepsStack(rest, callee, callee_frame) ==
    IF callee.returns
    THEN IF callee.args + 1 > Len(callee_frame.locals)
         THEN Crash(rest, "index out of bounds")
         ELSE LET result == callee_frame.locals[callee.args + 1]
                  ev == <<ReturnEvent(callee.name, Some(result), callee_frame)>>
              IN  IF rest = <<>> THEN Exec(rest, "none", ev, 0, 1)
                  ELSE IF Last(rest).kind = "Managed"
                  THEN Exec(ReplaceTop(rest, [Last(rest).frame EXCEPT
                                !.stack = Append(@ \o callee_frame.stack, result)]),
                            "none", ev, 0, 1)
                  ELSE Crash(rest, "not implemented")
    ELSE Exec(rest, "none", <<ReturnEvent(callee.name, None, callee_frame)>>, 0, 1)

(* finish_managed_call, after call_stack.pop(): rest is the stack below *)
FinishManagedCall(rest, callee, callee_frame) ==
    IF callee.returns
    THEN IF callee.args + 1 > Len(callee_frame.locals)
         THEN Crash(rest, "index out of bounds")
         ELSE LET result == callee_frame.locals[callee.args + 1]
                  ev == <<ReturnEvent(callee.name, Some(result), callee_frame)>>
              IN  IF rest = <<>> THEN Exec(rest, "none", ev, 0, 1)
                  ELSE IF Last(rest).kind = "Managed"
                  THEN Exec(ReplaceTop(rest, [Last(rest).frame EXCEPT !.stack = Append(@, result)]),
                            "none", ev, 0, 1)
                  ELSE Crash(rest, "not implemented")
    ELSE Exec(rest, "none", <<ReturnEvent(callee.name, None, callee_frame)>>, 0, 1)

(* a finish_native_call that looks the name up only when a result is needed *)
FinishNativeCallLazy(rest, callee, random) ==
    IF callee.returns
    THEN IF callee.name # "random" THEN Crash(rest, "undefined function")
         ELSE IF rest = <<>> THEN Exec(rest, "none", <<>>, 0, 1)
         ELSE IF Last(rest).kind = "Managed"
         THEN Exec(ReplaceTop(rest, [Last(rest).frame EXCEPT !.stack = Append(@, random)]),
                   "none", <<>>, 0, 1)
         ELSE Crash(rest, "not implemented")
    ELSE Exec(rest, "none", <<NativeReturnEvent(callee.name)>>, 0, 1)

(* finish_native_call, after call_stack.pop(); random is what rand::random()
   returned *)
FinishNativeCall(rest, callee, random) ==
    IF callee.name # "random" THEN Crash(rest, "undefined function")
    ELSE IF callee.returns
    THEN IF rest = <<>> THEN Exec(rest, "none", <<>>, 0, 1)
         ELSE IF Last(rest).kind = "Managed"
         THEN Exec(ReplaceTop(rest, [Last(rest).frame EXCEPT !.stack = Append(@, random)]),
                   "none", <<>>, 0, 1)
         ELSE Crash(rest, "not implemented")
    ELSE Exec(rest, "none", <<NativeReturnEvent(callee.name)>>, 0, 1)

(* a call that completes a native function on the spot, pushing no frame *)
EnterCalleeSynchronous(functions, cs, callee_idx) ==
    IF callee_idx + 1 > Len(functions) THEN Crash(cs, "index out of bounds")
    ELSE LET callee == functions[callee_idx + 1]
             caller == functions[Last(cs).func]
         IN  IF callee.kind = "Managed"
             THEN LET r == CreateFrameForCallee(Last(cs).frame, callee)
                  IN  IF r.fault # "none" THEN Crash(cs, r.fault)
                      ELSE Exec(Append(ReplaceTop(cs, r.caller),
                                       ManagedFrame(callee_idx + 1, r.callee)),
                                "none", <<CallEvent(callee.name, caller.name)>>, 1, 0)
             ELSE LET r == FinishNativeCall(cs, callee, 0)
                  IN  Exec(r.call_stack, r.fault,
                           <<CallEvent(callee.name, caller.name)>> \o r.events, 0, 0)

(* run_managed_until_call's ExecutionStatus::Call arm and the push of
   execute_assembly: cs has the caller's frame, already advanced, on top *)
EnterCallee(functions, cs, callee_idx) ==
    IF callee_idx + 1 > Len(functions) THEN Crash(cs, "index out of bounds")
    ELSE LET callee == functions[callee_idx + 1]
             caller == functions[Last(cs).func]
         IN  IF callee.kind = "Managed"
             THEN LET r == CreateFrameForCallee(Last(cs).frame, callee)
                  IN  IF r.fault # "none" THEN Crash(cs, r.fault)
                      ELSE Exec(Append(ReplaceTop(cs, r.caller),
                                       ManagedFrame(callee_idx + 1, r.callee)),
                                "none", <<CallEvent(callee.name, caller.name)>>, 1, 0)
             ELSE Exec(Append(cs, NativeFrame(callee_idx + 1)),
                       "none", <<CallEvent(callee.name, caller.name)>>, 1, 0)

(* an entry that may be a native function, given a Native frame *)
EnterAnyKind(a) ==
    IF a.entry + 1 > Len(a.functions) THEN Crash(<<>>, "index out of bounds")
    ELSE IF a.functions[a.entry + 1].kind # "Managed"
    THEN Exec(<<NativeFrame(a.entry + 1)>>, "none", <<>>, 1, 0)
    ELSE Exec(<<ManagedFrame(a.entry + 1, ByFunc(a.functions[a.entry + 1]))>>,
              "none", <<>>, 1, 0)

(* execute_assembly up to the loop: get_entry().as_managed().unwrap() and the
   first call_stack *)
Enter(a) ==
    IF a.entry + 1 > Len(a.functions) THEN Crash(<<>>, "index out of bounds")
    ELSE IF a.functions[a.entry + 1].kind # "Managed" THEN Crash(<<>>, "unwrap on None")
    ELSE Exec(<<ManagedFrame(a.entry + 1, ByFunc(a.functions[a.entry + 1]))>>,
              "none", <<>>, 1, 0)

(* one pass of the loop of run_managed_until_call on the top frame, with what
   execute_assembly does when the step leaves that loop; one iteration of
   execute_assembly when the top frame is Native *)
ExecStep(functions, cs, checks, random) ==
    LET top == Last(cs)
        def == functions[top.func]
    IN  IF top.kind = "Native" THEN FinishNativeCall(Front(cs), def, random)
        ELSE LET st == StepManaged(def, top.frame, checks)
             IN  IF st.fault # "none" THEN Crash(cs, st.fault)
                 ELSE CASE st.status = "Normal" ->
                             Exec(ReplaceTop(cs, st.frame), "none", <<>>, 0, 0)
                        [] st.status = "Breakpoint" ->
                             Exec(ReplaceTop(cs, st.frame), "none", <<Snapshot(st.frame)>>, 0, 0)
                        [] st.status = "Call" ->
                             EnterCallee(functions, ReplaceTop(cs, st.frame), st.idx)
                        [] st.status = "Return" ->
                             FinishManagedCall(Front(cs), def, st.frame)

-----------------------------------------------------------------------------
(* loader.rs *)

(* a line of the file after trim(), classified as load() does (starts with
   '.', ends with ':', or neither) and split at the spaces; the '.' and the
   ':' are cut off as load() cuts them *)
Line(kind, parts) == [kind |-> kind, parts |-> parts]

Range(seq) == {seq[i] : i \in 1..Len(seq)}

(* HashMap<String, usize> *)
EmptyMap == [k \in {} |-> 0]

(* str::parse for the integer types, on the numerals the model writes *)
Numerals == <<"0", "1", "2", "3", "4", "5", "6", "7", "8", "9">>
ParseNumber(tok) ==
    IF \E i \in 1..Len(Numerals) : Numerals[i] = tok
    THEN Some((CHOOSE i \in 1..Len(Numerals) : Numerals[i] = tok) - 1)
    ELSE None

(* str::parse::<bool> *)
ParseBool(tok) ==
    IF tok = "true" THEN Some(TRUE) ELSE IF tok = "false" THEN Some(FALSE) ELSE None

(* Loader::new *)
NewLoader ==
    [functions |-> <<>>, pending_labels |-> <<>>, label_offsets |-> EmptyMap,
     labels |-> <<>>, current_func |-> None, called_names |-> <<>>]

Loaded(l) == [fault |-> "none", loader |-> l]

(* Iterator::position: the 0-based index of the first element equal to value *)
Position(seq, value) ==
    IF \E i \in 1..Len(seq) : seq[i] = value
    THEN Some((CHOOSE i \in 1..Len(seq) : seq[i] = value /\ \A j \in 1..(i - 1) : seq[j] # value) - 1)
    ELSE None


(* get_index_for: the table after the call and the index returned *)
GetIndexFor(set, value) ==
    IF IsSome(Position(set, value))
    THEN [set |-> set, idx |-> Unwrap(Position(set, value))]
    ELSE [set |-> Append(set, value), idx |-> Len(set)]

(* save_pending_labels binding the labels one position late *)
SavePendingLabelsLate(l) ==
    IF ~IsSome(l.current_func) THEN Panic("unwrap on None")
    ELSE LET position == Len(Unwrap(l.current_func).body) + 1
             pending == Range(l.pending_labels)
         IN  Loaded([l EXCEPT
                 !.label_offsets = [k \in (DOMAIN @) \cup pending |->
                                        IF k \in pending THEN position ELSE @[k]],
                 !.pending_labels = <<>>])

(* Loader::save_pending_labels *)
SavePendingLabels(l) ==
    IF ~IsSome(l.current_func) THEN Panic("unwrap on None")
    ELSE LET position == Len(Unwrap(l.current_func).body)
             pending == Range(l.pending_labels)
         IN  Loaded([l EXCEPT
                 !.label_offsets = [k \in (DOMAIN @) \cup pending |->
                                        IF k \in pending THEN position ELSE @[k]],
                 !.pending_labels = <<>>])

(* get_real_instruction_offset giving offset 0 to a label never declared *)
GetRealInstructionOffsetOrZero(l, idx) ==
    IF l.labels[idx + 1] \in DOMAIN l.label_offsets
    THEN Some(l.label_offsets[l.labels[idx + 1]])
    ELSE Some(0)

(* Loader::get_real_instruction_offset *)
GetRealInstructionOffset(l, idx) ==
    IF l.labels[idx + 1] \in DOMAIN l.label_offsets
    THEN Some(l.label_offsets[l.labels[idx + 1]])
    ELSE None

(* Loader::fill_branching_placeholders *)
FillBranchingPlaceholders(l) ==
    LET func == Unwrap(l.current_func)
        branches == {i \in 1..Len(func.body) : func.body[i].op \in {"jump", "beq"}}
    IN  IF \E i \in branches : ~IsSome(GetRealInstructionOffset(l, func.body[i].arg))
        THEN Panic("label not found")
        ELSE Loaded([l EXCEPT !.current_func = Some([func EXCEPT !.body =
                 [i \in 1..Len(func.body) |->
                     IF i \in branches
                     THEN Inst(func.body[i].op,
                               Unwrap(GetRealInstructionOffset(l, func.body[i].arg)))
                     ELSE func.body[i]]])])

(* a resize that leaves the vector as it is *)
ResizeNot(v, n) == v

(* Vec::resize(n, 0) when n exceeds the length *)
Resize(v, n) == [i \in 1..n |-> IF i <= Len(v) THEN v[i] ELSE 0]

(* a save_func that leaves the labels still pending unbound *)
SaveFuncDropsPending(l) ==
    IF ~IsSome(l.current_func) THEN Loaded(l)
    ELSE LET b == FillBranchingPlaceholders(l)
         IN  IF b.fault # "none" THEN Panic(b.fault)
             ELSE LET func == Unwrap(b.loader.current_func)
                      default_locals == func.args + (IF func.returns THEN 1 ELSE 0)
                      sized == IF default_locals > Len(func.default_locals)
                               THEN [func EXCEPT !.default_locals = Resize(@, default_locals)]
                               ELSE func
                  IN  Loaded([b.loader EXCEPT !.current_func = None,
                                              !.pending_labels = <<>>,
                                              !.functions = Append(@, sized)])

(* Loader::save_func *)
SaveFunc(l) ==
    IF ~IsSome(l.current_func) THEN Loaded(l)
    ELSE LET a == SavePendingLabels(l)
         IN  IF a.fault # "none" THEN Panic(a.fault)
             ELSE LET b == FillBranchingPlaceholders(a.loader)
                  IN  IF b.fault # "none" THEN Panic(b.fault)
                      ELSE LET func == Unwrap(b.loader.current_func)
                               default_locals == func.args + (IF func.returns THEN 1 ELSE 0)
                               sized == IF default_locals > Len(func.default_locals)
                                        THEN [func EXCEPT !.default_locals = Resize(@, default_locals)]
                                        ELSE func
                           IN  Loaded([b.loader EXCEPT !.current_func = None,
                                                       !.functions = Append(@, sized)])

(* a .func that also empties the table of called names *)
StartFuncClearsCalls(l, name, args, returns) ==
    [l EXCEPT !.current_func = Some(ManagedFuncDef(name, args, returns, <<>>, <<>>)),
              !.pending_labels = <<>>,
              !.labels = <<>>,
              !.label_offsets = EmptyMap,
              !.called_names = <<>>]

(* a .func that leaves the labels of the function before it in place *)
StartFuncKeepsLabels(l, name, args, returns) ==
    [l EXCEPT !.current_func = Some(ManagedFuncDef(name, args, returns, <<>>, <<>>)),
              !.pending_labels = <<>>]

(* the "func" arm of process_meta after save_func and the parsing: the new
   current function, and the label scope emptied *)
StartFunc(l, name, args, returns) ==
    [l EXCEPT !.current_func = Some(ManagedFuncDef(name, args, returns, <<>>, <<>>)),
              !.pending_labels = <<>>,
              !.labels = <<>>,
              !.label_offsets = EmptyMap]

(* Loader::process_meta: parts is the line after the '.' split at the spaces *)
ProcessMeta(l, parts) ==
    CASE parts[1] = "func" ->
            LET a == SaveFunc(l)
            IN  IF a.fault # "none" THEN Panic(a.fault)
                ELSE IF Len(parts) < 2 THEN Panic("unwrap on None")
                ELSE IF Len(parts) < 3 THEN Panic("unwrap on None")
                ELSE IF ~IsSome(ParseNumber(parts[3])) THEN Panic("unwrap on Err")
                ELSE IF Len(parts) < 4 THEN Panic("unwrap on None")
                ELSE IF ~IsSome(ParseBool(parts[4])) THEN Panic("unwrap on Err")
                ELSE Loaded(StartFunc(a.loader, parts[2],
                         Unwrap(ParseNumber(parts[3])), Unwrap(ParseBool(parts[4]))))
      [] parts[1] = "locals" ->
            IF ~IsSome(l.current_func) THEN Loaded(l)
            ELSE IF Len(parts) < 2 THEN Panic("unwrap on None")
            ELSE IF ~IsSome(ParseNumber(parts[2])) THEN Panic("unwrap on Err")
            ELSE Loaded([l EXCEPT !.current_func = Some([Unwrap(@) EXCEPT
                     !.default_locals = [i \in 1..Unwrap(ParseNumber(parts[2])) |-> 0]])])
      [] parts[1] = "local" ->
            IF Len(parts) < 2 THEN Panic("unwrap on None")
            ELSE IF ~IsSome(ParseNumber(parts[2])) THEN Panic("unwrap on Err")
            ELSE IF Len(parts) < 3 THEN Panic("unwrap on None")
            ELSE IF ~IsSome(ParseNumber(parts[3])) THEN Panic("unwrap on Err")
            ELSE IF ~IsSome(l.current_func) THEN Loaded(l)
            ELSE IF Unwrap(ParseNumber(parts[2])) + 1 > Len(Unwrap(l.current_func).default_locals)
            THEN Panic("index out of bounds")
            ELSE Loaded([l EXCEPT !.current_func = Some([Unwrap(@) EXCEPT
                     !.default_locals[Unwrap(ParseNumber(parts[2])) + 1] =
                         Unwrap(ParseNumber(parts[3]))])])
      [] OTHER -> Loaded(l)

(* Loader::parse_label *)
ParseLabel(l, label) == Loaded([l EXCEPT !.pending_labels = Append(@, label)])

(* the mnemonics parse_instruction matches, and the opcode of each *)
Mnemonics ==
    [m \in {"ldarg", "starg", "jump", "beq", "add.u", "add.s", "sub.u", "sub.s",
            "breakpoint", "call", "ret"} |->
        CASE m = "add.u" -> "add_u" [] m = "add.s" -> "add_s"
          [] m = "sub.u" -> "sub_u" [] m = "sub.s" -> "sub_s"
          [] OTHER -> m]

(* the match of parse_instruction: the instruction and the loader with its
   placeholder tables updated *)
ParseOp(l, parts) ==
    IF parts[1] \notin DOMAIN Mnemonics THEN Panic("unreachable")
    ELSE LET op == Mnemonics[parts[1]]
         IN  CASE op \in {"ldarg", "starg"} ->
                    IF Len(parts) < 2 \/ ~IsSome(ParseNumber(parts[2]))
                    THEN Panic("unwrap on None")
                    ELSE [fault |-> "none", loader |-> l,
                          op |-> Inst(op, Unwrap(ParseNumber(parts[2])))]
               [] op \in {"jump", "beq"} ->
                    IF Len(parts) < 2 THEN Panic("unwrap on None")
                    ELSE LET r == GetIndexFor(l.labels, parts[2])
                         IN  [fault |-> "none", loader |-> [l EXCEPT !.labels = r.set],
                              op |-> Inst(op, r.idx)]
               [] op = "call" ->
                    IF Len(parts) < 2 THEN Panic("unwrap on None")
                    ELSE LET r == GetIndexFor(l.called_names, parts[2])
                         IN  [fault |-> "none", loader |-> [l EXCEPT !.called_names = r.set],
                              op |-> Inst(op, r.idx)]
               [] OTHER -> [fault |-> "none", loader |-> l, op |-> I0(op)]

(* Loader::parse_instruction *)
ParseInstruction(l, parts) ==
    LET a == ParseOp(l, parts)
    IN  IF a.fault # "none" THEN Panic(a.fault)
        ELSE LET b == SavePendingLabels(a.loader)
             IN  IF b.fault # "none" THEN Panic(b.fault)
                 ELSE Loaded([b.loader EXCEPT !.current_func =
                          Some([Unwrap(@) EXCEPT !.body = Append(@, a.op)])])

(* get_real_func_index giving index 0 to a name no function has *)
GetRealFuncIndexOrZero(l, fake_idx) ==
    IF fake_idx + 1 > Len(l.called_names) THEN None
    ELSE IF IsSome(Position([i \in 1..Len(l.functions) |-> l.functions[i].name],
                            l.called_names[fake_idx + 1]))
    THEN Position([i \in 1..Len(l.functions) |-> l.functions[i].name],
                  l.called_names[fake_idx + 1])
    ELSE Some(0)

(* get_real_func_index counting the functions from 1 *)
GetRealFuncIndexFromOne(l, fake_idx) ==
    IF fake_idx + 1 > Len(l.called_names) THEN None
    ELSE IF IsSome(Position([i \in 1..Len(l.functions) |-> l.functions[i].name],
                            l.called_names[fake_idx + 1]))
    THEN Some(Unwrap(Position([i \in 1..Len(l.functions) |-> l.functions[i].name],
                              l.called_names[fake_idx + 1])) + 1)
    ELSE None

(* Loader::get_real_func_index: None stands for its panic, be it the index
   into called_names out of bounds or the expect on a name no function has *)
GetRealFuncIndex(l, fake_idx) ==
    IF fake_idx + 1 > Len(l.called_names) THEN None
    ELSE Position([i \in 1..Len(l.functions) |-> l.functions[i].name],
                  l.called_names[fake_idx + 1])

(* Loader::fill_call_placeholders *)
FillCallPlaceholders(l) ==
    IF \E f \in 1..Len(l.functions) : \E i \in 1..Len(l.functions[f].body) :
          /\ l.functions[f].body[i].op = "call"
          /\ ~IsSome(GetRealFuncIndex(l, l.functions[f].body[i].arg))
    THEN Panic("no such func")
    ELSE Loaded([l EXCEPT !.functions =
             [f \in 1..Len(l.functions) |-> [l.functions[f] EXCEPT !.body =
                 [i \in 1..Len(l.functions[f].body) |->
                     IF l.functions[f].body[i].op = "call"
                     THEN Inst("call", Unwrap(GetRealFuncIndex(l, l.functions[f].body[i].arg)))
                     ELSE l.functions[f].body[i]]]]])

(* the body of the for loop of Loader::load on one line *)
LoadLine(l, line) ==
    CASE line.kind = "meta" -> ProcessMeta(l, line.parts)
      [] line.kind = "label" -> ParseLabel(l, line.parts[1])
      [] line.kind = "inst" -> ParseInstruction(l, line.parts)

(* Loader::load after the loop: save_func, fill_call_placeholders *)
LoadEnd(l) ==
    LET a == SaveFunc(l)
    IN  IF a.fault # "none" THEN Panic(a.fault) ELSE FillCallPlaceholders(a.loader)

(* Loader::load on a whole file: the loader it leaves, or the panic *)
RECURSIVE LoadFrom(_, _, _)
LoadFrom(l, lines, n) ==
    IF n > Len(lines) THEN LoadEnd(l)
    ELSE LET a == LoadLine(l, lines[n])
         IN  IF a.fault # "none" THEN Panic(a.fault) ELSE LoadFrom(a.loader, lines, n + 1)

Load(lines) == LoadFrom(NewLoader, lines, 1)

(* the Assembly load() returns; execution enters at the first function *)
LoadedAssembly(l) == Assembly(0, l.functions)

-----------------------------------------------------------------------------
(* The programs the executor is run on *)

(* words that meet every case of the arithmetic: small ones, the largest
   positive i32, the smallest word that is negative as an i32, the largest *)
Vals == {0, 1, 2, 3, SignBit - 1, SignBit, MaxWord}
ArgVals == {1, 2}
RandomVals == {0, 1, MaxWord}

Loads(k) == [i \in 1..k |-> Inst("ldarg", i - 1)]

Main(returns, x, y, body) == ManagedFuncDef("main", 0, returns, <<x, y, 0>>, body)

(* main: push up to two locals, apply one binary operation, store the result *)
ArithPrograms ==
    {Assembly(0, <<Main(FALSE, x, y, Loads(k) \o <<I0(op), Inst("starg", 2)>>)>>) :
        op \in BinaryOps, x \in Vals, y \in Vals, k \in 0..2}

(* main: push up to two locals, then one instruction that is neither a binary
   operation nor a call *)
ControlInsts ==
    {Inst(op, t) : op \in {"jump", "beq"}, t \in 0..5}
    \cup {Inst(op, n) : op \in {"ldarg", "starg"}, n \in 0..3}
    \cup {I0("ret"), I0("breakpoint")}

ControlPrograms ==
    {Assembly(0, <<Main(r, x, y, Loads(k) \o <<i, Inst("ldarg", 1), I0("breakpoint")>>)>>) :
        i \in ControlInsts, r \in BOOLEAN, x \in {0, 1}, y \in {0, 1}, k \in 0..2}

(* the functions main calls *)
CalleeBodies(args) ==
    {<<>>,
     <<I0("ret"), Inst("ldarg", 0)>>,
     <<Inst("ldarg", 0), Inst("starg", args)>>,
     <<Inst("ldarg", 0), Inst("ldarg", 1), I0("sub_u"), Inst("starg", args), I0("ret")>>,
     <<Inst("ldarg", 1), I0("breakpoint"), Inst("ldarg", 0), I0("ret")>>}

CalleesOf(a) ==
    {ManagedFuncDef("f", a, r, [i \in 1..(a + (IF r THEN 1 ELSE 0) + e) |-> 0], b) :
        r \in BOOLEAN, e \in 0..1, b \in CalleeBodies(a)}

Callees == UNION {CalleesOf(a) : a \in 0..2}

Natives ==
    <<NativeFuncDef("random", 0, TRUE), NativeFuncDef("random", 1, FALSE),
      NativeFuncDef("time", 0, TRUE), NativeFuncDef("time", 0, FALSE)>>

MainTails == {<<>>, <<Inst("starg", 2), I0("breakpoint")>>}

(* main: push up to two locals, call the managed function f *)
CallPrograms ==
    {Assembly(0, <<Main(TRUE, x, y, Loads(k) \o <<Inst("call", 1)>> \o t), f>>) :
        f \in Callees, x \in ArgVals, y \in ArgVals, k \in 0..2, t \in MainTails}

(* main: push up to two locals, call itself, a native function or no function *)
OtherCallPrograms ==
    {Assembly(0, <<Main(r, 1, 2, Loads(k) \o <<Inst("call", c)>> \o t),
                   ManagedFuncDef("f", 1, TRUE, <<0, 0>>, <<>>)>> \o Natives) :
        c \in {0, 2, 3, 4, 5, 6}, r \in BOOLEAN, k \in 0..2, t \in MainTails}

(* main calls f, f calls g and h: three frames deep, two calls in one body *)
NestedPrograms ==
    {Assembly(e, <<
        Main(FALSE, x, y, <<Inst("ldarg", 0), Inst("ldarg", 1), Inst("call", 1),
                            Inst("starg", 2), I0("breakpoint")>>),
        ManagedFuncDef("f", 2, TRUE, <<0, 0, 0, 7>>,
            <<Inst("ldarg", 1), Inst("call", 2), Inst("ldarg", 0), Inst("call", c),
              I0(op), Inst("starg", 2)>>),
        ManagedFuncDef("g", 1, rg, <<0, 0>>,
            <<Inst("ldarg", 0), Inst("ldarg", 0), I0("add_u"), Inst("starg", 1)>>),
        NativeFuncDef("random", 0, TRUE)>>) :
        e \in 0..4, x \in ArgVals, y \in ArgVals, c \in {2, 3}, rg \in BOOLEAN,
        op \in {"sub_u", "div_u"}}

Programs ==
    ArithPrograms \cup ControlPrograms \cup CallPrograms \cup OtherCallPrograms
    \cup NestedPrograms

-----------------------------------------------------------------------------
(* The executor as a state machine *)

Init ==
    /\ source = <<>>
    /\ line_no = 0
    /\ loader = NewLoader
    /\ asm \in Programs
    /\ call_stack = <<>>
    /\ phase = "loaded"
    /\ fault = "none"
    /\ overflow_checks \in BOOLEAN
    /\ out = <<>>
    /\ pushed = 0
    /\ popped = 0
    /\ steps = 0

(* a panic ends the process: nothing runs after it, and the model keeps the
   call stack as the step found it *)
Abort(why) ==
    /\ phase' = "fault"
    /\ fault' = why
    /\ UNCHANGED <<call_stack, out, pushed, popped>>

(* execute_assembly up to the loop: the entry function's frame *)
Start ==
    /\ phase = "loaded"
    /\ LET r == Enter(asm)
       IN  IF r.fault # "none" THEN Abort(r.fault)
           ELSE /\ call_stack' = r.call_stack
                /\ pushed' = pushed + r.pushes
                /\ phase' = "running"
                /\ UNCHANGED <<fault, out, popped>>
    /\ UNCHANGED <<loadVars, asm, overflow_checks, steps>>

(* a loop that ends as soon as one frame is left *)
CommitStopsEarly(r) ==
    /\ steps' = steps + 1
    /\ UNCHANGED <<loadVars, asm, overflow_checks>>
    /\ IF r.fault # "none" THEN Abort(r.fault)
       ELSE /\ call_stack' = r.call_stack
            /\ out' = out \o r.events
            /\ pushed' = pushed + r.pushes
            /\ popped' = popped + r.pops
            /\ phase' = IF Len(r.call_stack) <= 1 THEN "done" ELSE "running"
            /\ UNCHANGED fault

(* the result of one executor step takes effect; the loop of execute_assembly
   goes on while call_stack is not empty *)
Commit(r) ==
    /\ steps' = steps + 1
    /\ UNCHANGED <<loadVars, asm, overflow_checks>>
    /\ IF r.fault # "none" THEN Abort(r.fault)
       ELSE /\ call_stack' = r.call_stack
            /\ out' = out \o r.events
            /\ pushed' = pushed + r.pushes
            /\ popped' = popped + r.pops
            /\ phase' = IF r.call_stack = <<>> THEN "done" ELSE "running"
            /\ UNCHANGED fault

Running == phase = "running" /\ steps < MaxSteps

Top == Last(call_stack)
TopDef == asm.functions[Top.func]
TopManaged == Running /\ Top.kind = "Managed"
TopOp ==
    IF AtEnd(TopDef, Top.frame) THEN "end" ELSE Fetch(TopDef, Top.frame).op

(* one step of the top Managed frame: the result of ExecStep takes effect *)
StepTop == Commit(ExecStep(asm.functions, call_stack, overflow_checks, 0))

DoBinary ==
    /\ TopManaged
    /\ TopOp \in BinaryOps
    /\ StepTop

DoJump ==
    /\ TopManaged
    /\ TopOp \in {"jump"}
    /\ StepTop

DoBeq ==
    /\ TopManaged
    /\ TopOp \in {"beq"}
    /\ StepTop

DoLdarg ==
    /\ TopManaged
    /\ TopOp \in {"ldarg"}
    /\ StepTop

DoStarg ==
    /\ TopManaged
    /\ TopOp \in {"starg"}
    /\ StepTop

DoCall ==
    /\ TopManaged
    /\ TopOp \in {"call"}
    /\ StepTop

DoRet ==
    /\ TopManaged
    /\ TopOp \in {"ret"}
    /\ StepTop

DoEnd ==
    /\ TopManaged
    /\ TopOp \in {"end"}
    /\ StepTop

DoBreakpoint ==
    /\ TopManaged
    /\ TopOp \in {"breakpoint"}
    /\ StepTop

(* the iteration of execute_assembly that finds a Native frame on top *)
DoNative ==
    /\ Running
    /\ Top.kind = "Native"
    /\ \E random \in RandomVals :
          Commit(ExecStep(asm.functions, call_stack, overflow_checks, random))

StepExec ==
    \/ DoBinary \/ DoJump \/ DoBeq \/ DoLdarg \/ DoStarg
    \/ DoCall \/ DoRet \/ DoEnd \/ DoBreakpoint

Next == Start \/ StepExec \/ DoNative

Spec == Init /\ [][Next]_vars

-----------------------------------------------------------------------------
(* bin/run.rs: load a file, then execute what was loaded *)

(* execute_assembly's loop from call stack cs, for at most fuel steps, on a
   program without native functions: how it ends and what it writes *)
RECURSIVE RunFrom(_, _, _, _, _)
RunFrom(functions, cs, checks, events, fuel) ==
    IF cs = <<>> THEN [phase |-> "done", fault |-> "none", events |-> events]
    ELSE IF fuel = 0 THEN [phase |-> "running", fault |-> "none", events |-> events]
    ELSE LET r == ExecStep(functions, cs, checks, 0)
         IN  IF r.fault # "none"
             THEN [phase |-> "fault", fault |-> r.fault, events |-> events]
             ELSE RunFrom(functions, r.call_stack, checks, events \o r.events, fuel - 1)

(* execute_assembly *)
ExecuteAssembly(a, checks, fuel) ==
    LET r == Enter(a)
    IN  IF r.fault # "none" THEN [phase |-> "fault", fault |-> r.fault, events |-> <<>>]
        ELSE RunFrom(a.functions, r.call_stack, checks, <<>>, fuel)

(* main of bin/run.rs *)
RunFile(lines, checks, fuel) ==
    LET l == Load(lines)
    IN  IF l.fault # "none" THEN [phase |-> "load failed", fault |-> l.fault, events |-> <<>>]
        ELSE ExecuteAssembly(LoadedAssembly(l.loader), checks, fuel)

-----------------------------------------------------------------------------
(* The files the loader is run on *)

MaxBreakpoints == 2
MaxItems == 4
MaxLocalsLines == 3

Func(name, args, returns) == Line("meta", <<"func", name, args, returns>>)
LocalsLine(count) == Line("meta", <<"locals", count>>)
LocalLine(idx, value) == Line("meta", <<"local", idx, value>>)
Label(name) == Line("label", <<name>>)
Op0(mnemonic) == Line("inst", <<mnemonic>>)
Op1(mnemonic, operand) == Line("inst", <<mnemonic, operand>>)

UpTo2(S) == {<<>>} \cup {<<a>> : a \in S} \cup {<<a, b>> : a \in S, b \in S}

(* two functions, each with up to two calls, to itself, to the other, to a
   function defined earlier or later or nowhere *)
FuncNames == {"main", "f", "g"}
CallLines == {Op1("call", n) : n \in FuncNames}

CallSources ==
    {<<Func(n1, "0", "false")>> \o b1 \o <<Func(n2, "0", "false")>> \o b2 :
        n1 \in FuncNames, n2 \in FuncNames, b1 \in UpTo2(CallLines), b2 \in UpTo2(CallLines)}

(* three functions in every order: main calls f and g, f calls g *)
Block(name) ==
    CASE name = "main" -> <<Func("main", "0", "false"), Op1("call", "f"), Op1("call", "g")>>
      [] name = "f" -> <<Func("f", "0", "true"), Op1("call", "g"), Op1("starg", "0")>>
      [] name = "g" -> <<Func("g", "0", "true"), LocalsLine("1"), LocalLine("0", "5"), Op0("ret")>>

OrderSources ==
    {Block(o[1]) \o Block(o[2]) \o Block(o[3]) :
        o \in {t \in FuncNames \X FuncNames \X FuncNames :
                  t[1] # t[2] /\ t[1] # t[3] /\ t[2] # t[3]}}

(* main pushes 1 then 2 and calls f, which subtracts *)
CallBase ==
    <<Func("main", "0", "false"), LocalsLine("3"), LocalLine("0", "1"), LocalLine("1", "2"),
      Op1("ldarg", "0"), Op1("ldarg", "1"), Op1("call", "f"), Op1("starg", "2"),
      Func("f", "2", "true"), Op1("ldarg", "0"), Op1("ldarg", "1"), Op0("sub.u"),
      Op1("starg", "2"), Op0("ret")>>

(* main loops until its two locals are equal, with a backward jump, a forward
   branch and a label after the last instruction *)
LoopBase ==
    <<Func("main", "0", "true"), LocalsLine("2"), LocalLine("0", "1"),
      Label("top"), Op1("ldarg", "0"), Op1("ldarg", "1"), Op1("beq", "done"),
      Op1("ldarg", "0"), Op1("starg", "1"), Op1("jump", "top"), Label("done")>>

(* base with a breakpoint line after each line whose number is in at; 0 is
   before the first line *)
RECURSIVE WithBreakpoints(_, _, _)
WithBreakpoints(base, at, n) ==
    IF n > Len(base) THEN <<>>
    ELSE (IF n = 0 THEN <<>> ELSE <<base[n]>>)
         \o (IF n \in at THEN <<Op0("breakpoint")>> ELSE <<>>)
         \o WithBreakpoints(base, at, n + 1)

BreakpointSets(base) ==
    {at \in SUBSET (0..Len(base)) : Cardinality(at) <= MaxBreakpoints}

BreakpointSources ==
    {WithBreakpoints(base, at, 0) : base \in {CallBase}, at \in BreakpointSets(CallBase)}
    \cup {WithBreakpoints(base, at, 0) : base \in {LoopBase}, at \in BreakpointSets(LoopBase)}

(* one function of up to MaxItems lines, or two of up to two lines each, with
   the labels a and b declared zero, one or more times, before or after the
   jump and beq that name them, one after the other or at the end *)
LabelItems ==
    {Label("a"), Label("b"), Op1("jump", "a"), Op1("jump", "b"), Op1("beq", "b"), Op0("ret")}

RECURSIVE SeqsUpTo(_, _)
SeqsUpTo(S, n) ==
    IF n = 0 THEN {<<>>}
    ELSE SeqsUpTo(S, n - 1) \cup {Append(q, x) : q \in SeqsUpTo(S, n - 1), x \in S}

LabelSources ==
    {<<Func("main", "0", "false")>> \o b : b \in SeqsUpTo(LabelItems, MaxItems)}
    \cup {<<Func("main", "0", "false")>> \o b1 \o <<Func("f", "0", "false")>> \o b2 :
              b1 \in SeqsUpTo(LabelItems, 2), b2 \in SeqsUpTo(LabelItems, 2)}

(* one function with zero to three arguments, with or without a return value,
   and up to MaxLocalsLines .locals and .local lines in any order, some of
   them naming a slot past the size declared *)
LocalsItems ==
    {LocalsLine("0"), LocalsLine("2"), LocalsLine("4"),
     LocalLine("0", "5"), LocalLine("1", "7"), LocalLine("3", "9")}

LocalsSources ==
    {<<Func("main", a, r)>> \o b \o <<Op0("ret")>> :
        a \in {"0", "1", "3"}, r \in {"true", "false"},
        b \in SeqsUpTo(LocalsItems, MaxLocalsLines)}

(* one function with a label and one or two more lines: an instruction with
   any mnemonic of the Inst enum, or a directive that process_meta has no arm
   for *)
FormatLines ==
    {Op1("ldarg", "0"), Op1("starg", "0"), Op1("jump", "a"), Op1("beq", "a"),
     Op1("call", "main"), Op0("ret"), Op0("breakpoint"),
     Op0("add.u"), Op0("add.s"), Op0("sub.u"), Op0("sub.s"),
     Op0("mul.u"), Op0("mul.s"), Op0("div.u"), Op0("div.s"),
     Line("meta", <<"entry", "main">>), Line("meta", <<"stack", "4">>)}

FormatSources ==
    {<<Func("main", "0", "false"), Label("a"), x>> \o t :
        x \in FormatLines, t \in {<<>>} \cup {<<y>> : y \in FormatLines}}

(* files without a function *)
EmptySources == {<<>>, <<Label("a")>>, <<LocalsLine("2")>>}

Sources ==
    CallSources \cup OrderSources \cup BreakpointSources \cup LabelSources
    \cup LocalsSources \cup FormatSources \cup EmptySources

-----------------------------------------------------------------------------
(* The loader and the executor as a state machine *)

InitLoad ==
    /\ source \in Sources
    /\ line_no = 0
    /\ loader = NewLoader
    /\ asm = Assembly(0, <<>>)
    /\ call_stack = <<>>
    /\ phase = "loading"
    /\ fault = "none"
    /\ overflow_checks \in BOOLEAN
    /\ out = <<>>
    /\ pushed = 0
    /\ popped = 0
    /\ steps = 0

(* a panic of the loader: no Assembly is returned *)
LoadFails(why) ==
    /\ phase' = "load failed"
    /\ fault' = why
    /\ UNCHANGED <<loader, line_no, asm>>

(* one pass of the for loop of Loader::load *)
ReadLine ==
    /\ phase = "loading"
    /\ line_no < Len(source)
    /\ LET r == LoadLine(loader, source[line_no + 1])
       IN  IF r.fault # "none" THEN LoadFails(r.fault)
           ELSE /\ loader' = r.loader
                /\ line_no' = line_no + 1
                /\ UNCHANGED <<phase, fault, asm>>
    /\ UNCHANGED <<source, call_stack, overflow_checks, out, pushed, popped, steps>>

(* Loader::load after the last line *)
EndOfFile ==
    /\ phase = "loading"
    /\ line_no = Len(source)
    /\ LET r == LoadEnd(loader)
       IN  IF r.fault # "none" THEN LoadFails(r.fault)
           ELSE /\ loader' = r.loader
                /\ asm' = LoadedAssembly(r.loader)
                /\ phase' = "loaded"
                /\ UNCHANGED <<line_no, fault>>
    /\ UNCHANGED <<source, call_stack, overflow_checks, out, pushed, popped, steps>>

NextLoad == ReadLine \/ EndOfFile \/ Start \/ StepExec

LoadSpec == InitLoad /\ [][NextLoad]_vars

-----------------------------------------------------------------------------
(* Properties of the executor *)

(* the step taken is a step of the executor that did not panic *)
StepOk == phase = "running" /\ steps' # steps /\ fault' = "none"

(* the step taken is a step of the executor that panicked, leaving the call
   stack, the output and the counters as they were *)
StepAborts ==
    /\ phase' = "fault"
    /\ fault' # "none"
    /\ UNCHANGED <<call_stack, out, pushed, popped>>

TopStack == Top.frame.stack
Depth == Len(TopStack)

(* the function a call instruction on top names, when there is one *)
CallTarget == Fetch(TopDef, Top.frame).arg + 1
CallsManaged ==
    /\ TopManaged
    /\ TopOp = "call"
    /\ CallTarget <= Len(asm.functions)
    /\ asm.functions[CallTarget].kind = "Managed"

(* C1: a call to a managed function with n arguments leaves, in the callee's
   new frame, locals[i] equal to the (i+1)-th value popped from the caller's
   stack, so locals[0] is the value that was on top, and the caller's stack
   loses exactly those n values *)
C1_ArgumentOrder ==
    [][(CallsManaged /\ StepOk) =>
         LET n == asm.functions[CallTarget].args
             old == TopStack
             new == Last(call_stack')
             caller == call_stack'[Len(call_stack)]
         IN  /\ Len(call_stack') = Len(call_stack) + 1
             /\ new.kind = "Managed"
             /\ new.func = CallTarget
             /\ \A i \in 0..(n - 1) : new.frame.locals[i + 1] = old[Len(old) - i]
             /\ \A i \in (n + 1)..Len(new.frame.locals) :
                    new.frame.locals[i] = asm.functions[CallTarget].default_locals[i]
             /\ new.frame.stack = <<>>
             /\ new.frame.program_counter = 0
             /\ caller.frame.stack = SubSeq(old, 1, Len(old) - n)
             /\ caller.frame.locals = Top.frame.locals]_vars

(* main pushed a = 1 then b = 2 and called a 2-argument function: the callee
   starts with locals[0] = 2 and locals[1] = 1 *)
C1_Witness ==
    /\ phase = "running"
    /\ Len(call_stack) = 2
    /\ call_stack[2].kind = "Managed"
    /\ asm.functions[call_stack[2].func].args = 2
    /\ call_stack[2].frame.program_counter = 0
    /\ call_stack[1].frame.locals = <<1, 2, 0>>
    /\ call_stack[1].frame.stack = <<>>
    /\ call_stack[1].frame.program_counter = 3
    /\ call_stack[2].frame.locals[1] = 2
    /\ call_stack[2].frame.locals[2] = 1

Returns == TopManaged /\ TopOp \in {"ret", "end"}

(* C2: a managed frame that returns (ret or end of body) is popped; if its
   function returns a value, locals[argCount] is pushed on the frame directly
   below when there is one, and nothing is pushed otherwise; with no caller
   left execution ends.  A call pops argCount values from the caller and no
   step of a managed frame changes a frame below it except its return, so the
   caller's depth after the call is its depth before, minus argCount, plus
   one if the callee returns a value *)
C2_ReturnValueTransfer ==
    [][StepOk =>
         /\ Returns =>
              LET rest == Front(call_stack)
                  result == Top.frame.locals[TopDef.args + 1]
              IN  /\ Len(call_stack') = Len(rest)
                  /\ \A i \in 1..(Len(rest) - 1) : call_stack'[i] = rest[i]
                  /\ rest # <<>> =>
                       /\ Last(call_stack').frame.stack =
                            IF TopDef.returns THEN Append(Last(rest).frame.stack, result)
                            ELSE Last(rest).frame.stack
                       /\ Last(call_stack').frame.locals = Last(rest).frame.locals
                       /\ Last(call_stack').frame.program_counter = Last(rest).frame.program_counter
                  /\ (phase' = "done") = (rest = <<>>)
         /\ CallsManaged =>
              Len(call_stack'[Len(call_stack)].frame.stack) =
                  Depth - asm.functions[CallTarget].args
         /\ (Top.kind = "Managed" /\ ~Returns) =>
              \A i \in 1..(Len(call_stack) - 1) : call_stack'[i] = call_stack[i]]_vars

(* g returned 2 + 2 to f: the return was written with result 4 and 4 is on
   top of f's stack *)
C2_Witness ==
    /\ phase = "running"
    /\ out # <<>>
    /\ Last(out).ev = "return"
    /\ Last(out).result = Some(4)
    /\ Last(out).locals = <<2, 4>>
    /\ Len(call_stack) = 2
    /\ Top.frame.stack = <<4>>

(* C3: the frames on the call stack are those pushed and not yet popped; while
   the executor runs the stack is not empty, and when execution has ended
   without a panic the stack is empty and as many frames were popped as were
   pushed, the entry frame included *)
C3_CallStackBalance ==
    /\ phase \in {"running", "done"} => Len(call_stack) = pushed - popped
    /\ phase = "running" => call_stack # <<>>
    /\ phase = "done" => call_stack = <<>> /\ pushed = popped /\ pushed >= 1

(* a run with three managed frames and a native one ended normally *)
C3_Witness == phase = "done" /\ pushed = 4 /\ popped = 4

BinaryStep == TopManaged /\ TopOp \in BinaryOps /\ Depth >= 2

(* C5: main pushes a = locals[0], then b = locals[1], then executes a binary
   operation: the value pushed is b <op> a, so the operand pushed first is the
   right-hand one (sub.u gives b - a, div.u gives b / a) *)
C5_FirstPushedIsRightHand ==
    \A f \in 1..Len(call_stack) :
        LET fr == call_stack[f].frame
            body == asm.functions[call_stack[f].func].body
        IN  (/\ phase = "running"
             /\ call_stack[f].kind = "Managed"
             /\ Len(body) >= 3
             /\ SubSeq(body, 1, 2) = Loads(2)
             /\ body[3].op \in BinaryOps
             /\ fr.program_counter = 3)
            => LET a == fr.locals[1]
                   b == fr.locals[2]
                   op == body[3].op
               IN  /\ fr.stack = <<Wrap(op \in SignedOps, Exact(op, b, a))>>
                   /\ op = "sub_u" => fr.stack = <<(b - a) % WordMod>>
                   /\ op = "div_u" => fr.stack = <<b \div a>>

(* a = 1 was pushed, then b = 3, then sub.u: 2 is on the stack *)
C5_Witness ==
    /\ phase = "running"
    /\ Len(call_stack) = 1
    /\ Len(TopDef.body) >= 3
    /\ TopDef.body[3].op = "sub_u"
    /\ Top.frame.program_counter = 3
    /\ Top.frame.locals = <<1, 3, 0>>
    /\ Top.frame.stack = <<2>>

(* C6 as claimed: the result pushed is secondPopped <op> firstPopped *)
C6_SecondPoppedIsLeftHand ==
    [][(BinaryStep /\ StepOk) =>
         LET firstPopped == TopStack[Depth]
             secondPopped == TopStack[Depth - 1]
         IN  Last(Last(call_stack').frame.stack) =
                 Wrap(TopOp \in SignedOps, Exact(TopOp, secondPopped, firstPopped))]_vars

(* C6 as amended: the result pushed is firstPopped <op> secondPopped: the
   value popped first (the top of the stack) is the left-hand operand and the
   value popped second is the right-hand operand *)
C6_FirstPoppedIsLeftHand ==
    [][(BinaryStep /\ StepOk) =>
         LET firstPopped == TopStack[Depth]
             secondPopped == TopStack[Depth - 1]
         IN  Last(call_stack').frame.stack =
                 Append(SubSeq(TopStack, 1, Depth - 2),
                        Wrap(TopOp \in SignedOps, Exact(TopOp, firstPopped, secondPopped)))]_vars

(* div.u found 3 on top of 1 and pushed 3 / 1 *)
C6_Witness ==
    /\ phase = "running"
    /\ Len(call_stack) = 1
    /\ Len(TopDef.body) >= 3
    /\ TopDef.body[3].op = "div_u"
    /\ Top.frame.program_counter = 3
    /\ Top.frame.locals = <<1, 3, 0>>
    /\ Top.frame.stack = <<3>>

(* a word read as the two's-complement i32 with the same bits *)
AsI32(w) == IF w >= SignBit THEN w - WordMod ELSE w

Abs(x) == IF x < 0 THEN -x ELSE x

(* i32 arithmetic on the mathematical integers; division truncates *)
ExactI32(op, a, b) ==
    IF op = "div_s"
    THEN (IF (a < 0) = (b < 0) THEN 1 ELSE -1) * (Abs(a) \div Abs(b))
    ELSE Exact(op, a, b)

(* C7 as claimed: a signed operation reads each popped word as the i32 with
   the same bits, a word >= 2^31 included, and pushes the i32 result, a
   negative one included, as the word with the same bits *)
C7_SignedReinterpretsBits ==
    [][(/\ BinaryStep
        /\ TopOp \in SignedOps
        /\ steps' # steps
        /\ ~(TopOp = "div_s" /\ TopStack[Depth - 1] = 0)
        /\ InRange(TRUE, ExactI32(TopOp, AsI32(TopStack[Depth]), AsI32(TopStack[Depth - 1]))))
       => /\ fault' = "none"
          /\ Last(Last(call_stack').frame.stack) =
                 ExactI32(TopOp, AsI32(TopStack[Depth]), AsI32(TopStack[Depth - 1])) % WordMod]_vars

(* C8: div.u or div.s whose divisor (the second value popped, the right-hand
   operand of the executor's division) is 0 panics: no result is pushed, no
   frame is popped, and nothing runs after a panic *)
C8_DivisionByZeroIsFatal ==
    [][/\ phase # "fault"
       /\ (/\ BinaryStep
           /\ TopOp \in {"div_u", "div_s"}
           /\ TopStack[Depth - 1] = 0
           /\ steps' # steps) => StepAborts]_vars

(* div.u found 3 on top of 0 and panicked *)
C8_Witness ==
    /\ phase = "fault"
    /\ fault = "divide by zero"
    /\ TopOp = "div_u"
    /\ TopStack = <<0, 3>>

(* the top frame's next instruction pops more than the stack holds *)
Underflows ==
    /\ TopManaged
    /\ \/ TopOp = "starg" /\ Depth = 0
       \/ TopOp \in BinaryOps \cup {"beq"} /\ Depth < 2
       \/ CallsManaged /\ asm.functions[CallTarget].args > Depth

(* C9: an instruction that has to pop from an empty operand stack (starg at
   depth 0, a binary operation or beq at depth < 2, a call to a managed
   function with more arguments than the caller's depth) panics, and nothing
   runs after a panic *)
C9_UnderflowIsFatal ==
    [][/\ phase # "fault"
       /\ (Underflows /\ steps' # steps) => StepAborts]_vars

(* a call to a 2-argument function found one value on the stack and panicked *)
C9_Witness ==
    /\ phase = "fault"
    /\ fault = "pop on empty stack"
    /\ TopOp = "call"
    /\ asm.functions[CallTarget].args = 2
    /\ Depth = 1

-----------------------------------------------------------------------------
(* Properties of the loader and of loaded programs *)

IsBreakpointLine(line) == line.kind = "inst" /\ line.parts[1] = "breakpoint"

(* the file with every breakpoint line deleted *)
Strip(lines) == SelectSeq(lines, LAMBDA line : ~IsBreakpointLine(line))

IsSnapshot(e) == e.ev = "breakpoint"
WithoutSnapshots(events) == SelectSeq(events, LAMBDA e : ~IsSnapshot(e))
Snapshots(events) == SelectSeq(events, IsSnapshot)

(* C4: a file that loads, and the same file with every breakpoint line
   deleted, run alike: the second loads too, execution ends the same way
   (normally, or with the same panic), and the calls and returns written are
   the same in the same order, each return with the same value and the same
   final stack and locals of the returning frame; only the snapshots differ *)
C4_BreakpointTransparency ==
    phase \in {"done", "fault"} =>
        LET ref == RunFile(Strip(source), overflow_checks, MaxSteps)
        IN  /\ ref.phase = phase
            /\ ref.fault = fault
            /\ WithoutSnapshots(out) = ref.events
            /\ Snapshots(ref.events) = <<>>

(* a file with two breakpoint lines, one of them inside a loop and right
   after a label, ran to its end and wrote three snapshots and a return *)
C4_Witness ==
    /\ phase = "done"
    /\ Len(Snapshots(out)) = 3
    /\ Len(source) = Len(Strip(source)) + 2
    /\ \E n \in 1..(Len(source) - 1) :
          source[n].kind = "label" /\ IsBreakpointLine(source[n + 1])
    /\ Last(out).ev = "return"
    /\ Last(out).result = Some(1)

(* the lines of the file that hold .func, in order *)
FuncLines(lines) ==
    SelectSeq([n \in 1..Len(lines) |-> n],
              LAMBDA n : lines[n].kind = "meta" /\ lines[n].parts[1] = "func")

(* the instruction lines of the k-th function of the file, in order *)
InstLinesOf(lines, k) ==
    LET starts == FuncLines(lines)
        from == starts[k] + 1
        to == IF k < Len(starts) THEN starts[k + 1] - 1 ELSE Len(lines)
    IN  SelectSeq(SubSeq(lines, from, to), LAMBDA line : line.kind = "inst")

(* C10: after a successful load every call instruction of every function
   holds the index of a function whose name is the callee name written in the
   file, be that function defined before or after the caller, and the same
   callee name has the same index in every function *)
C10_CallResolutionIsGlobal ==
    phase = "loaded" =>
        /\ Len(asm.functions) = Len(FuncLines(source))
        /\ \A k \in 1..Len(asm.functions) :
              LET written == InstLinesOf(source, k)
                  body == asm.functions[k].body
              IN  /\ Len(body) = Len(written)
                  /\ \A i \in 1..Len(body) :
                        /\ (body[i].op = "call") = (written[i].parts[1] = "call")
                        /\ written[i].parts[1] = "call" =>
                              /\ body[i].arg + 1 <= Len(asm.functions)
                              /\ asm.functions[body[i].arg + 1].name = written[i].parts[2]
                              /\ \A k2 \in 1..Len(asm.functions) :
                                    \A i2 \in 1..Len(asm.functions[k2].body) :
                                        (/\ InstLinesOf(source, k2)[i2].parts[1] = "call"
                                         /\ InstLinesOf(source, k2)[i2].parts[2] = written[i].parts[2])
                                        => asm.functions[k2].body[i2].arg = body[i].arg

(* main, defined first, calls f and then g, which are defined after it, and f
   calls g too: both calls of g hold g's index *)
C10_Witness ==
    /\ phase = "loaded"
    /\ Len(asm.functions) = 3
    /\ asm.functions[1].name = "main"
    /\ asm.functions[3].name = "g"
    /\ asm.functions[1].body = <<Inst("call", 1), Inst("call", 2)>>
    /\ asm.functions[2].body[1] = Inst("call", 2)
    /\ loader.called_names = <<"f", "g">>

-----------------------------------------------------------------------------
(* Properties of the loader *)

(* every line of the k-th function of the file, its .func line left out *)
LinesOf(lines, k) ==
    LET starts == FuncLines(lines)
        from == starts[k] + 1
        to == IF k < Len(starts) THEN starts[k + 1] - 1 ELSE Len(lines)
    IN  SubSeq(lines, from, to)

(* the lines of fl that declare the label name *)
Declarations(fl, name) ==
    {j \in 1..Len(fl) : fl[j].kind = "label" /\ fl[j].parts[1] = name}

(* the instruction lines of fl before line j: the body position of the first
   instruction appended after line j *)
PositionAt(fl, j) == Cardinality({n \in 1..(j - 1) : fl[n].kind = "inst"})

LastOf(S) == CHOOSE j \in S : \A n \in S : n <= j

IsBranch(line) == line.kind = "inst" /\ line.parts[1] \in {"jump", "beq"}

(* C11: after a successful load every jump and beq holds the body position of
   the first instruction appended after the declaration of the label it names
   in its own function (after the last one if the label is declared again),
   whether the declaration stands before or after the branch; labels declared
   one after the other before one instruction resolve to the same position *)
C11_LabelResolution ==
    phase = "loaded" =>
        \A k \in 1..Len(asm.functions) :
            LET fl == LinesOf(source, k)
                written == InstLinesOf(source, k)
                body == asm.functions[k].body
            IN  /\ Len(body) = Len(written)
                /\ \A i \in 1..Len(body) :
                      /\ (body[i].op \in {"jump", "beq"}) = IsBranch(written[i])
                      /\ IsBranch(written[i]) =>
                            LET decls == Declarations(fl, written[i].parts[2])
                            IN  /\ body[i].op = written[i].parts[1]
                                /\ decls # {}
                                /\ body[i].arg = PositionAt(fl, LastOf(decls))
                                /\ body[i].arg <= Len(body)
                /\ \A j \in 1..(Len(fl) - 1), i \in 1..Len(body), i2 \in 1..Len(body) :
                      (/\ fl[j].kind = "label" /\ fl[j + 1].kind = "label"
                       /\ Declarations(fl, fl[j].parts[1]) = {j}
                       /\ Declarations(fl, fl[j + 1].parts[1]) = {j + 1}
                       /\ IsBranch(written[i]) /\ written[i].parts[2] = fl[j].parts[1]
                       /\ IsBranch(written[i2]) /\ written[i2].parts[2] = fl[j + 1].parts[1])
                      => body[i].arg = body[i2].arg

(* jump b, a:, b:, jump a was loaded: the forward jump to b and the backward
   jump to a both hold 1, the position of the second jump *)
C11_Witness ==
    /\ phase = "loaded"
    /\ source = <<Func("main", "0", "false"), Op1("jump", "b"), Label("a"), Label("b"),
                  Op1("jump", "a")>>
    /\ asm.functions[1].body = <<Inst("jump", 1), Inst("jump", 1)>>

IsFuncLine(line) == line.kind = "meta" /\ line.parts[1] = "func"

(* the lines read so far of the function being assembled: those after the
   last .func line read *)
CurrentLines ==
    LET starts == {n \in 1..line_no : IsFuncLine(source[n])}
    IN  IF starts = {} THEN <<>> ELSE SubSeq(source, LastOf(starts) + 1, line_no)

InFunction == \E n \in 1..line_no : IsFuncLine(source[n])

(* fl has a jump or beq to a label that no line of fl declares *)
HasUnresolvedLabel(fl) ==
    \E i \in 1..Len(fl) : IsBranch(fl[i]) /\ Declarations(fl, fl[i].parts[2]) = {}

(* the next step of the loader finalizes the function being assembled: the
   next line is a .func, or the file has ended *)
Finalizes ==
    /\ phase = "loading"
    /\ InFunction
    /\ (line_no = Len(source) \/ IsFuncLine(source[line_no + 1]))

(* C12: a function with a jump or beq to a label declared nowhere in it makes
   the load fail at the step that finalizes the function, not before, and no
   assembly is produced: no loaded file has such a function *)
C12_UnresolvedLabelFailsLoad ==
    /\ [](phase = "loaded" =>
             \A k \in 1..Len(FuncLines(source)) : ~HasUnresolvedLabel(LinesOf(source, k)))
    /\ []((phase = "loading" /\ InFunction /\ HasUnresolvedLabel(CurrentLines)) =>
             (Len(loader.functions) < Len(FuncLines(source)) /\ asm.functions = <<>>))
    /\ [][(Finalizes /\ HasUnresolvedLabel(CurrentLines)) =>
             (/\ phase' = "load failed"
              /\ fault' = "label not found"
              /\ asm' = asm
              /\ asm.functions = <<>>)]_vars

(* main's jump a was read, then ret; the load failed on the .func line that
   finalizes main *)
C12_Witness ==
    /\ phase = "load failed"
    /\ fault = "label not found"
    /\ source = <<Func("main", "0", "false"), Op1("jump", "a"), Op0("ret"),
                  Func("f", "0", "false")>>
    /\ line_no = 3
    /\ asm.functions = <<>>

IsCallLine(line) == line.kind = "inst" /\ line.parts[1] = "call" /\ Len(line.parts) >= 2

(* the names the .func lines of the file define *)
DefinedNames(lines) == {lines[n].parts[2] : n \in {m \in 1..Len(lines) : IsFuncLine(lines[m])}}

(* a function of the file has a call to a name that no .func line defines *)
HasUnknownCallee(lines) ==
    \E k \in 1..Len(FuncLines(lines)) :
        \E i \in 1..Len(LinesOf(lines, k)) :
            /\ IsCallLine(LinesOf(lines, k)[i])
            /\ LinesOf(lines, k)[i].parts[2] \notin DefinedNames(lines)

(* C13: a call to a name that no .func of the file defines does not stop the
   loader where it stands (the function may be defined later); the load fails
   once the last line is read and every function is finalized, and no assembly
   is produced: no loaded file has such a call *)
C13_UnknownCalleeFailsLoad ==
    /\ [](phase = "loaded" => ~HasUnknownCallee(source))
    /\ [][(/\ phase = "loading" /\ InFunction /\ line_no < Len(source)
           /\ IsCallLine(source[line_no + 1]))
          => (phase' = "loading" /\ line_no' = line_no + 1)]_vars
    /\ [][(/\ phase = "loading" /\ line_no = Len(source) /\ HasUnknownCallee(source))
          => (/\ phase' = "load failed"
              /\ Len(loader.functions) = Len(FuncLines(source)) - 1
              /\ fault' = IF HasUnresolvedLabel(CurrentLines)
                          THEN "label not found" ELSE "no such func"
              /\ asm' = asm
              /\ asm.functions = <<>>)]_vars

(* main calls g and f is the only other function: every line was read and the
   load failed at the end *)
C13_Witness ==
    /\ phase = "load failed"
    /\ fault = "no such func"
    /\ source = <<Func("main", "0", "false"), Op1("call", "g"), Func("f", "0", "false")>>
    /\ line_no = Len(source)
    /\ asm.functions = <<>>

(* the functions of the file other than the k-th that declare the label name *)
DeclaredElsewhere(lines, k, name) ==
    {k2 \in 1..Len(FuncLines(lines)) : k2 # k /\ Declarations(LinesOf(lines, k2), name) # {}}

(* the k-th function of the file has a jump or beq to a label that it does
   not declare and another function does *)
BranchesIntoOther(lines, k) ==
    \E i \in 1..Len(LinesOf(lines, k)) :
        /\ IsBranch(LinesOf(lines, k)[i])
        /\ Declarations(LinesOf(lines, k), LinesOf(lines, k)[i].parts[2]) = {}
        /\ DeclaredElsewhere(lines, k, LinesOf(lines, k)[i].parts[2]) # {}

(* C14: a label is visible in the function that declares it only.  A file in
   which a function branches to a label that only another function declares,
   earlier or later in the file, is never loaded: the load fails when the
   branching function is finalized.  When two functions declare the same
   label name, a branch to it holds, in each function, the offset that
   function's own declaration gives *)
C14_LabelScopeIsFunctionLocal ==
    /\ [](phase = "loaded" =>
            /\ \A k \in 1..Len(FuncLines(source)) : ~BranchesIntoOther(source, k)
            /\ \A k \in 1..Len(asm.functions), k2 \in 1..Len(asm.functions) :
                  \A i \in 1..Len(asm.functions[k].body), i2 \in 1..Len(asm.functions[k2].body) :
                      LET w == InstLinesOf(source, k)[i]
                          w2 == InstLinesOf(source, k2)[i2]
                      IN  (k # k2 /\ IsBranch(w) /\ IsBranch(w2) /\ w.parts[2] = w2.parts[2])
                          => /\ asm.functions[k].body[i].arg =
                                  PositionAt(LinesOf(source, k),
                                      LastOf(Declarations(LinesOf(source, k), w.parts[2])))
                             /\ asm.functions[k2].body[i2].arg =
                                  PositionAt(LinesOf(source, k2),
                                      LastOf(Declarations(LinesOf(source, k2), w2.parts[2]))))
    /\ [][(Finalizes /\ BranchesIntoOther(source, Len(FuncLines(SubSeq(source, 1, line_no)))))
          => (phase' = "load failed" /\ fault' = "label not found" /\ asm' = asm
              /\ asm.functions = <<>>)]_vars

(* main is a:, jump a and f is jump a, a: : main's jump holds 0 and f's holds 1 *)
C14_Witness ==
    /\ phase = "loaded"
    /\ source = <<Func("main", "0", "false"), Label("a"), Op1("jump", "a"),
                  Func("f", "0", "false"), Op1("jump", "a"), Label("a")>>
    /\ asm.functions[1].body = <<Inst("jump", 0)>>
    /\ asm.functions[2].body = <<Inst("jump", 1)>>

(* main declares a and f, after it, jumps to a without declaring it: the load
   failed at the end of f *)
C14_WitnessFails ==
    /\ phase = "load failed"
    /\ fault = "label not found"
    /\ source = <<Func("main", "0", "false"), Label("a"), Op0("ret"),
                  Func("f", "0", "false"), Op1("jump", "a")>>
    /\ line_no = Len(source)

IsLocalsLine(line) == line.kind = "meta" /\ line.parts[1] = "locals"
IsLocalLine(line) == line.kind = "meta" /\ line.parts[1] = "local"

(* the last .locals line of fl, 0 when there is none *)
LastLocals(fl) ==
    LET at == {j \in 1..Len(fl) : IsLocalsLine(fl[j])}
    IN  IF at = {} THEN 0 ELSE LastOf(at)

(* the count the .locals of fl gives, 0 when there is none *)
LocalsCount(fl) ==
    IF LastLocals(fl) = 0 THEN 0 ELSE Unwrap(ParseNumber(fl[LastLocals(fl)].parts[2]))

(* the .local lines of fl that name the slot, after the last .locals *)
SetsSlot(fl, slot) ==
    {j \in (LastLocals(fl) + 1)..Len(fl) :
        IsLocalLine(fl[j]) /\ ParseNumber(fl[j].parts[2]) = Some(slot)}

(* C15: every function of a loaded assembly has at least argCount + (1 if it
   returns a value) default locals; their number is the larger of that
   minimum and the count its .locals gives (0 without one); a slot that no
   .local sets is 0, and a slot set after the .locals holds the value last
   given to it *)
C15_LocalsSizing ==
    phase = "loaded" =>
        \A k \in 1..Len(asm.functions) :
            LET fl == LinesOf(source, k)
                f == asm.functions[k]
                least == f.args + (IF f.returns THEN 1 ELSE 0)
            IN  /\ Len(f.default_locals) >= least
                /\ Len(f.default_locals) =
                       IF least > LocalsCount(fl) THEN least ELSE LocalsCount(fl)
                /\ \A slot \in 0..(Len(f.default_locals) - 1) :
                      /\ (\A j \in 1..Len(fl) :
                              IsLocalLine(fl[j]) => ParseNumber(fl[j].parts[2]) # Some(slot))
                         => f.default_locals[slot + 1] = 0
                      /\ f.default_locals[slot + 1] =
                            IF SetsSlot(fl, slot) = {} THEN 0
                            ELSE Unwrap(ParseNumber(fl[LastOf(SetsSlot(fl, slot))].parts[3]))

(* a function with three arguments and a return value, .locals 2 and
   .local 1 7: four locals, the second one 7 *)
C15_Witness ==
    /\ phase = "loaded"
    /\ source = <<Func("main", "3", "true"), LocalsLine("2"), LocalLine("1", "7"), Op0("ret")>>
    /\ asm.functions[1].default_locals = <<0, 7, 0, 0>>

(* a line starting with '.' whose directive is none of func, locals, local *)
IsUnknownDirective(line) ==
    line.kind = "meta" /\ line.parts[1] \notin {"func", "locals", "local"}

(* C16: a line whose directive name is not func, locals or local makes the
   load fail when it is read, and no file holding such a line is loaded *)
C16_UnknownDirectiveFailsLoad ==
    /\ [](phase = "loaded" => \A n \in 1..Len(source) : ~IsUnknownDirective(source[n]))
    /\ [][(/\ phase = "loading" /\ line_no < Len(source)
           /\ IsUnknownDirective(source[line_no + 1]))
          => phase' = "load failed"]_vars

(* the opcode each mnemonic of the source format stands for *)
OpcodeOf ==
    [m \in {"ldarg", "starg", "jump", "beq", "call", "ret", "breakpoint",
            "add.u", "add.s", "sub.u", "sub.s", "mul.u", "mul.s", "div.u", "div.s"} |->
        CASE m = "add.u" -> "add_u" [] m = "add.s" -> "add_s"
          [] m = "sub.u" -> "sub_u" [] m = "sub.s" -> "sub_s"
          [] m = "mul.u" -> "mul_u" [] m = "mul.s" -> "mul_s"
          [] m = "div.u" -> "div_u" [] m = "div.s" -> "div_s"
          [] OTHER -> m]

(* the next line is an instruction of the source format, in a function, with
   the operand its mnemonic takes *)
ReadsInstruction ==
    /\ phase = "loading"
    /\ InFunction
    /\ line_no < Len(source)
    /\ source[line_no + 1].kind = "inst"
    /\ source[line_no + 1].parts[1] \in DOMAIN OpcodeOf
    /\ source[line_no + 1].parts[1] \in {"ldarg", "starg"} =>
          (Len(source[line_no + 1].parts) = 2 /\ IsSome(ParseNumber(source[line_no + 1].parts[2])))
    /\ source[line_no + 1].parts[1] \in {"jump", "beq", "call"} =>
          Len(source[line_no + 1].parts) = 2

(* C17: reading an instruction line with any mnemonic of the source format
   does not fail and appends one instruction, of the opcode the mnemonic stands
   for, to the body of the function being assembled *)
C17_EveryMnemonicAccepted ==
    [][ReadsInstruction =>
         /\ phase' = "loading"
         /\ fault' = "none"
         /\ IsSome(loader'.current_func)
         /\ Len(Unwrap(loader'.current_func).body) = Len(Unwrap(loader.current_func).body) + 1
         /\ Last(Unwrap(loader'.current_func).body).op = OpcodeOf[source[line_no + 1].parts[1]]
         /\ Front(Unwrap(loader'.current_func).body) = Unwrap(loader.current_func).body]_vars

-----------------------------------------------------------------------------
(* Properties of native calls *)

CallsNative ==
    /\ TopManaged
    /\ TopOp = "call"
    /\ CallTarget <= Len(asm.functions)
    /\ asm.functions[CallTarget].kind = "Native"

TopNative == Running /\ Top.kind = "Native"

(* C18 as claimed: no frame of a native function is ever on the call stack *)
C18_OnlyManagedFrames ==
    \A i \in 1..Len(call_stack) : call_stack[i].kind = "Managed"

(* C18: a call to a native function pushes a Native frame, which holds the
   function's identity only.  A Native frame is never below another frame, and
   the step after its push pops it, executing no instruction: the frames below
   are as the call left them, but for the result pushed on the caller's stack
   when the function returns a value *)
C18_NativeFrameIsTransient ==
    /\ [](\A i \in 1..(Len(call_stack) - 1) : call_stack[i].kind = "Managed")
    /\ [][(CallsNative /\ StepOk) =>
             /\ call_stack' = Append(ReplaceTop(call_stack, Advance(Top.frame)),
                                     NativeFrame(CallTarget))
             /\ pushed' = pushed + 1]_vars
    /\ [][(TopNative /\ StepOk) =>
             /\ Len(call_stack') = Len(call_stack) - 1
             /\ popped' = popped + 1
             /\ Front(call_stack') = Front(Front(call_stack))
             /\ Last(call_stack').func = call_stack[Len(call_stack) - 1].func
             /\ Last(call_stack').frame.locals = call_stack[Len(call_stack) - 1].frame.locals
             /\ Last(call_stack').frame.program_counter =
                    call_stack[Len(call_stack) - 1].frame.program_counter
             /\ \/ Last(call_stack').frame.stack = call_stack[Len(call_stack) - 1].frame.stack
                \/ Front(Last(call_stack').frame.stack) =
                       call_stack[Len(call_stack) - 1].frame.stack]_vars

(* main called the native function random, whose frame is on top of main's *)
C18_Witness ==
    /\ phase = "running"
    /\ Len(call_stack) = 2
    /\ Top.kind = "Native"
    /\ TopDef.name = "random"
    /\ call_stack[1].kind = "Managed"
    /\ pushed = 2
    /\ popped = 0

(* C19: a call to a native function pops nothing from the caller's stack,
   whatever argCount the function declares.  When the call completes, a
   function whose name is not in the host table ("random" is the only name in
   it) is a fatal fault, whether or not it returns a value; otherwise one
   value, the host's result, is pushed on the caller's stack if the function
   returns a value and nothing is pushed if it does not *)
C19_NativeCallingConvention ==
    /\ [][CallsNative =>
             /\ StepOk
             /\ call_stack'[Len(call_stack)].frame.stack = TopStack
             /\ call_stack'[Len(call_stack)].frame.locals = Top.frame.locals]_vars
    /\ [][(TopNative /\ steps' # steps) =>
             LET caller == call_stack[Len(call_stack) - 1].frame
             IN  IF TopDef.name # "random" THEN StepAborts
                 ELSE /\ fault' = "none"
                      /\ Last(call_stack').frame.locals = caller.locals
                      /\ IF TopDef.returns
                         THEN /\ Len(Last(call_stack').frame.stack) = Len(caller.stack) + 1
                              /\ Front(Last(call_stack').frame.stack) = caller.stack
                              /\ Last(Last(call_stack').frame.stack) \in RandomVals
                         ELSE Last(call_stack').frame.stack = caller.stack]_vars

(* main pushed two values and called random, declared with one argument and
   no return value: the call has completed and the two values are on the
   stack *)
C19_Witness ==
    /\ phase = "running"
    /\ Len(call_stack) = 1
    /\ pushed = 2
    /\ popped = 1
    /\ Len(TopDef.body) >= 3
    /\ TopDef.body[3] = Inst("call", 3)
    /\ asm.functions[4] = NativeFuncDef("random", 1, FALSE)
    /\ Top.frame.program_counter = 3
    /\ Top.frame.stack = <<1, 2>>
    /\ Last(out) = NativeReturnEvent("random")

-----------------------------------------------------------------------------
(* Properties of the return to the caller *)

(* the frame at depth i waits for the frame above it: its program counter is
   one past a call instruction that names the function of the frame above *)
WaitsAfterCall(i) ==
    LET fr == call_stack[i].frame
        body == asm.functions[call_stack[i].func].body
    IN  /\ call_stack[i].kind = "Managed"
        /\ fr.program_counter >= 1
        /\ fr.program_counter <= Len(body)
        /\ body[fr.program_counter].op = "call"
        /\ body[fr.program_counter].arg + 1 = call_stack[i + 1].func

(* C20: a call at position p pushes the callee's frame on a caller whose
   program counter is already p + 1; while a frame has frames above it its
   program counter stays one past that call; when the frame above is popped
   the caller is on top with that program counter, so the instruction it
   executes next is the one at p + 1, and the value returned, if any, is then
   on top of its stack *)
C20_ResumeAfterCall ==
    /\ [](phase = "running" => \A i \in 1..(Len(call_stack) - 1) : WaitsAfterCall(i))
    /\ [][(TopManaged /\ TopOp = "call" /\ StepOk) =>
             /\ Len(call_stack') = Len(call_stack) + 1
             /\ call_stack'[Len(call_stack)].frame.program_counter =
                    Top.frame.program_counter + 1]_vars
    /\ [][StepOk =>
             \A i \in 1..(Len(call_stack) - 1) :
                 i <= Len(call_stack') =>
                     /\ call_stack'[i].func = call_stack[i].func
                     /\ call_stack'[i].frame.program_counter =
                            call_stack[i].frame.program_counter]_vars
    /\ [][(StepOk /\ Len(call_stack') = Len(call_stack) - 1 /\ call_stack' # <<>>) =>
             LET caller == call_stack[Len(call_stack) - 1]
                 resumed == Last(call_stack')
                 p == caller.frame.program_counter - 1
             IN  /\ asm.functions[caller.func].body[p + 1].op = "call"
                 /\ resumed.frame.program_counter = p + 1
                 /\ TopDef.returns =>
                        /\ resumed.frame.stack # <<>>
                        /\ Front(resumed.frame.stack) = caller.frame.stack
                        /\ Top.kind = "Managed" =>
                               Last(resumed.frame.stack) = Top.frame.locals[TopDef.args + 1]]_vars

(* f called g at position 1; g has returned 4 and f is on top again, about to
   execute the instruction at position 2 with 4 on its stack *)
C20_Witness ==
    /\ phase = "running"
    /\ Len(call_stack) = 2
    /\ TopDef.name = "f"
    /\ Top.kind = "Managed"
    /\ Len(TopDef.body) >= 2
    /\ TopDef.body[2] = Inst("call", 2)
    /\ Top.frame.program_counter = 2
    /\ Top.frame.stack = <<4>>
    /\ popped = 1
    /\ Last(out).ev = "return"
    /\ Last(out).name = "g"

(* the step pops the top frame, a Managed one, as a return does: the frames
   below are kept, the value of the return slot is pushed on the frame
   directly below when the function returns a value, the return is written
   with the locals and the stack of the frame dropped, and execution ends when
   no frame is left *)
ReturnEffect ==
    LET rest == Front(call_stack)
        result == Top.frame.locals[TopDef.args + 1]
    IN  /\ fault' = "none"
        /\ popped' = popped + 1
        /\ pushed' = pushed
        /\ Len(call_stack') = Len(rest)
        /\ IF rest = <<>> THEN phase' = "done"
           ELSE /\ phase' = "running"
                /\ Front(call_stack') = Front(rest)
                /\ Last(call_stack').func = Last(rest).func
                /\ Last(call_stack').frame.locals = Last(rest).frame.locals
                /\ Last(call_stack').frame.program_counter = Last(rest).frame.program_counter
                /\ Last(call_stack').frame.stack =
                       IF TopDef.returns THEN Append(Last(rest).frame.stack, result)
                       ELSE Last(rest).frame.stack
        /\ out' = Append(out, [ev |-> "return", name |-> TopDef.name,
                               result |-> IF TopDef.returns THEN Some(result) ELSE None,
                               stack |-> Top.frame.stack, locals |-> Top.frame.locals])

(* the return slot of the top frame exists *)
HasReturnSlot == TopDef.returns => TopDef.args + 1 <= Len(Top.frame.locals)

(* C21: a step of a managed frame whose program counter is at or past the end
   of its body has the effect of a ret instruction: the frame is popped and,
   if the function returns a value, locals[argCount] is pushed on the caller's
   stack.  The same effect is stated of both steps *)
C21_ImplicitReturn ==
    /\ [][(TopManaged /\ TopOp = "end" /\ steps' # steps) =>
             IF HasReturnSlot THEN ReturnEffect ELSE StepAborts]_vars
    /\ [][(TopManaged /\ TopOp = "ret" /\ steps' # steps) =>
             IF HasReturnSlot THEN ReturnEffect ELSE StepAborts]_vars

(* main called f with the argument 2; f has one argument, a return value and
   an empty body: it returned at once, and its return slot, 0, is on main's
   stack *)
C21_Witness ==
    /\ phase = "running"
    /\ Len(call_stack) = 1
    /\ Len(asm.functions) >= 2
    /\ asm.functions[2].kind = "Managed"
    /\ asm.functions[2].body = <<>>
    /\ asm.functions[2].args = 1
    /\ asm.functions[2].returns
    /\ Len(out) = 2
    /\ out[2].ev = "return"
    /\ out[2].name = "f"
    /\ out[2].locals = <<2, 0>>
    /\ out[2].result = Some(0)
    /\ Top.frame.stack = <<0>>

(* C22: a step of the executor changes the top frame only, but for a managed
   call, which takes argCount values off the caller's stack for the frame it
   pushes, and a return, which pushes at most one value on the frame directly
   below.  Every other frame keeps its program counter, stack and locals; the
   caller keeps its locals; what the callee left on its own stack goes with
   its frame *)
C22_FrameIsolation ==
    [][StepOk =>
         LET n == Len(call_stack)
         IN  /\ Len(call_stack') \in {n - 1, n, n + 1}
             /\ Len(call_stack') = n =>
                    /\ Front(call_stack') = Front(call_stack)
                    /\ Last(call_stack').func = Top.func
             /\ Len(call_stack') = n + 1 =>
                    /\ TopOp = "call"
                    /\ Front(Front(call_stack')) = Front(call_stack)
                    /\ call_stack'[n].func = Top.func
                    /\ call_stack'[n].frame.locals = Top.frame.locals
                    /\ call_stack'[n].frame.stack =
                           SubSeq(TopStack, 1,
                                  Depth - (IF asm.functions[CallTarget].kind = "Managed"
                                           THEN asm.functions[CallTarget].args ELSE 0))
             /\ (Len(call_stack') = n - 1 /\ n > 1) =>
                    LET caller == call_stack[n - 1]
                        after == call_stack'[n - 1]
                    IN  /\ Front(call_stack') = Front(Front(call_stack))
                        /\ after.func = caller.func
                        /\ after.frame.locals = caller.frame.locals
                        /\ after.frame.program_counter = caller.frame.program_counter
                        /\ IF TopDef.returns
                           THEN /\ Front(after.frame.stack) = caller.frame.stack
                                /\ Len(after.frame.stack) = Len(caller.frame.stack) + 1
                           ELSE after.frame.stack = caller.frame.stack]_vars

(* f returned with two values left on its stack: main, below it, has the one
   value f returned and nothing else *)
C22_Witness ==
    /\ phase = "running"
    /\ Len(call_stack) = 1
    /\ out # <<>>
    /\ Last(out).ev = "return"
    /\ Last(out).name = "f"
    /\ Len(Last(out).stack) = 2
    /\ Last(out).result # None
    /\ Top.frame.stack = <<Unwrap(Last(out).result)>>
    /\ Top.frame.locals = <<1, 2, 0>>

(* C23: a breakpoint moves the program counter of its frame one forward and
   changes neither the frame's stack and locals nor any other frame; it writes
   one snapshot, after everything written before it, of the stack and locals
   as the instructions before it left them; no frame is pushed or popped and
   the same frame is stepped next *)
C23_BreakpointStepEffect ==
    [][(TopManaged /\ TopOp = "breakpoint" /\ steps' # steps) =>
         /\ fault' = "none"
         /\ phase' = "running"
         /\ Len(call_stack') = Len(call_stack)
         /\ Front(call_stack') = Front(call_stack)
         /\ Last(call_stack').kind = "Managed"
         /\ Last(call_stack').func = Top.func
         /\ Last(call_stack').frame.program_counter = Top.frame.program_counter + 1
         /\ Last(call_stack').frame.stack = Top.frame.stack
         /\ Last(call_stack').frame.locals = Top.frame.locals
         /\ pushed' = pushed
         /\ popped' = popped
         /\ out' = Append(out, [ev |-> "breakpoint",
                                pc |-> Top.frame.program_counter + 1,
                                stack |-> Top.frame.stack,
                                locals |-> Top.frame.locals])]_vars

(* a breakpoint after two loads and a store: the snapshot shows the one value
   left on the stack and the value stored, and the frame is still on top *)
C23_Witness ==
    /\ phase = "running"
    /\ Len(call_stack) = 1
    /\ out # <<>>
    /\ Last(out).ev = "breakpoint"
    /\ Last(out).pc = Top.frame.program_counter
    /\ Last(out).stack = Top.frame.stack
    /\ Last(out).locals = Top.frame.locals
    /\ Len(Top.frame.stack) = 1
    /\ Top.frame.locals # asm.functions[Top.func].default_locals
    /\ TopDef.body[Top.frame.program_counter].op = "breakpoint"

(* the operand of the instruction the top frame is about to execute *)
TopArg == Fetch(TopDef, Top.frame).arg

(* the top frame after the step, when the step left the call stack as deep as
   it was and the frames below as they were *)
SameFrames ==
    /\ fault' = "none"
    /\ phase' = "running"
    /\ Len(call_stack') = Len(call_stack)
    /\ Front(call_stack') = Front(call_stack)
    /\ Last(call_stack').func = Top.func

(* C24: ldarg i and starg i with i at or past the number of locals of the
   frame end execution in a fault, after which no step is taken.  With i in
   range, ldarg pushes locals[i] and leaves the locals as they are; starg, on
   a stack that is not empty, moves the top of the stack into locals[i] and
   leaves the other locals as they are; both move the program counter one
   forward *)
C24_LocalIndexFault ==
    /\ [][(TopManaged /\ TopOp = "ldarg" /\ steps' # steps) =>
             IF TopArg >= Len(Top.frame.locals) THEN StepAborts
             ELSE /\ SameFrames
                  /\ Last(call_stack').frame.stack = Append(TopStack, Top.frame.locals[TopArg + 1])
                  /\ Last(call_stack').frame.locals = Top.frame.locals
                  /\ Last(call_stack').frame.program_counter = Top.frame.program_counter + 1]_vars
    /\ [][(TopManaged /\ TopOp = "starg" /\ steps' # steps) =>
             IF TopArg >= Len(Top.frame.locals) \/ TopStack = <<>> THEN StepAborts
             ELSE /\ SameFrames
                  /\ Last(call_stack').frame.stack = Front(TopStack)
                  /\ Len(Last(call_stack').frame.locals) = Len(Top.frame.locals)
                  /\ \A j \in 1..Len(Top.frame.locals) :
                         Last(call_stack').frame.locals[j] =
                             IF j = TopArg + 1 THEN Last(TopStack) ELSE Top.frame.locals[j]
                  /\ Last(call_stack').frame.program_counter = Top.frame.program_counter + 1]_vars
    /\ [][phase # "fault"]_vars

(* f, with no locals past its one argument, stopped on starg 1 with a value on
   its stack: execution has ended in a fault *)
C24_Witness ==
    /\ phase = "fault"
    /\ fault = "index out of bounds"
    /\ Len(call_stack) = 2
    /\ Top.kind = "Managed"
    /\ ~AtEnd(TopDef, Top.frame)
    /\ Fetch(TopDef, Top.frame) = Inst("starg", 1)
    /\ Len(Top.frame.locals) = 1
    /\ Top.frame.stack # <<>>

-----------------------------------------------------------------------------
(* Properties of a loaded file at run time *)

(* the loader has returned an assembly *)
IsLoaded == phase \in {"loaded", "running", "done", "fault"}

(* C25: in the assembly a load returns, every jump and beq holds a position
   of its function's body or the position just past it, and every call the
   index of a function.  In every state of its execution each frame is the
   frame of a function of the assembly with 0 <= programCounter <= the length
   of the body (step_managed fetches only below that length), and the function
   a call on top names is in the table *)
C25_ProgramCounterBound ==
    /\ IsLoaded =>
          \A k \in 1..Len(asm.functions) : \A i \in 1..Len(asm.functions[k].body) :
              LET inst == asm.functions[k].body[i]
              IN  /\ inst.op \in {"jump", "beq"} =>
                         (0 <= inst.arg /\ inst.arg <= Len(asm.functions[k].body))
                  /\ inst.op = "call" => (0 <= inst.arg /\ inst.arg < Len(asm.functions))
    /\ \A d \in 1..Len(call_stack) :
          /\ call_stack[d].func \in 1..Len(asm.functions)
          /\ call_stack[d].kind = "Managed" =>
                /\ 0 <= call_stack[d].frame.program_counter
                /\ call_stack[d].frame.program_counter
                       <= Len(asm.functions[call_stack[d].func].body)
    /\ (phase = "running" /\ Top.kind = "Managed" /\ TopOp = "call") =>
          CallTarget \in 1..Len(asm.functions)

(* main, first of three functions in the file, waits at position 1 for f,
   which has executed its last instruction: its program counter is the length
   of its body *)
C25_Witness ==
    /\ phase = "running"
    /\ source \in OrderSources
    /\ Len(call_stack) = 2
    /\ call_stack[1].func = 1
    /\ call_stack[1].frame.program_counter = 1
    /\ TopDef.name = "f"
    /\ Top.frame.program_counter = 2
    /\ Len(TopDef.body) = 2

(* C26: a Native frame on the call stack is the top frame and has a Managed
   frame directly below it; the step that follows pops it, or ends execution
   because the host has no function of its name.  So a frame is only ever
   pushed on a Managed frame, a result is only ever pushed on a Managed
   frame, and no run ends in "not implemented" *)
C26_NativeFramesNeverCallers ==
    /\ [](\A d \in 1..Len(call_stack) :
             call_stack[d].kind = "Native" =>
                 /\ d = Len(call_stack)
                 /\ d >= 2
                 /\ call_stack[d - 1].kind = "Managed")
    /\ [](fault # "not implemented")
    /\ [][(TopNative /\ steps' # steps) =>
             \/ StepAborts /\ fault' = "undefined function"
             \/ /\ fault' = "none"
                /\ Len(call_stack') = Len(call_stack) - 1
                /\ Last(call_stack').kind = "Managed"]_vars
    /\ [][(phase = "running" /\ Len(call_stack') = Len(call_stack) + 1) =>
             Top.kind = "Managed"]_vars
    /\ [][(phase = "running" /\ Len(call_stack') = Len(call_stack) - 1
           /\ call_stack' # <<>>) =>
             /\ call_stack[Len(call_stack) - 1].kind = "Managed"
             /\ Last(call_stack').kind = "Managed"]_vars

(* f, called by main, called the native function random: its frame is on top
   of two Managed frames *)
C26_Witness ==
    /\ phase = "running"
    /\ Len(call_stack) = 3
    /\ Top.kind = "Native"
    /\ call_stack[2].kind = "Managed"
    /\ call_stack[1].kind = "Managed"
    /\ asm.functions[call_stack[2].func].name = "f"

(* line j of fl has no instruction line after it *)
IsTrailing(fl, j) == \A n \in (j + 1)..Len(fl) : fl[n].kind # "inst"

(* the top frame is about to jump, or to take a beq, to the position just
   past the end of its body *)
BranchesToEnd ==
    /\ TopManaged
    /\ TopOp \in {"jump", "beq"}
    /\ TopArg = Len(TopDef.body)
    /\ TopOp = "beq" => (Depth >= 2 /\ TopStack[Depth] = TopStack[Depth - 1])

(* C27: a label declared after the last instruction of its function does not
   make the load fail: a file whose branches all name labels of their own
   function is finalized without a label fault, and a branch to such a label
   holds the length of the body.  At run time a jump or a taken beq with that
   target leaves the frame at the end of its body, and the frame's next step
   is its return.  A label declared more than once gives every branch to it,
   before or after, the position of its last declaration *)
C27_TrailingLabel ==
    /\ [][(Finalizes /\ ~HasUnresolvedLabel(CurrentLines)) =>
             fault' # "label not found"]_vars
    /\ [](phase = "loaded" =>
            \A k \in 1..Len(asm.functions) :
                LET fl == LinesOf(source, k)
                    written == InstLinesOf(source, k)
                    body == asm.functions[k].body
                IN  \A i \in 1..Len(body) :
                        IsBranch(written[i]) =>
                            LET decls == Declarations(fl, written[i].parts[2])
                            IN  /\ IsTrailing(fl, LastOf(decls)) => body[i].arg = Len(body)
                                /\ Cardinality(decls) > 1 =>
                                       /\ body[i].arg = PositionAt(fl, LastOf(decls))
                                       /\ \A j \in decls : body[i].arg >= PositionAt(fl, j))
    /\ [][(BranchesToEnd /\ steps' # steps) =>
             /\ fault' = "none"
             /\ phase' = "running"
             /\ Len(call_stack') = Len(call_stack)
             /\ Last(call_stack').frame.program_counter = Len(TopDef.body)
             /\ AtEnd(TopDef, Last(call_stack').frame)]_vars
    /\ [][(TopManaged /\ TopOp = "end" /\ StepOk) =>
             /\ Len(call_stack') = Len(call_stack) - 1
             /\ out' # out
             /\ Last(out').ev = "return"
             /\ Last(out').name = TopDef.name]_vars

(* the loop of main was left by its beq to done, a label after the last
   instruction, and main returned its first local *)
C27_Witness ==
    /\ phase = "done"
    /\ source = LoopBase
    /\ asm.functions[1].body[3] = Inst("beq", 6)
    /\ Len(asm.functions[1].body) = 6
    /\ Last(out).ev = "return"
    /\ Last(out).locals = <<1, 1>>
    /\ Last(out).stack = <<>>
    /\ Last(out).result = Some(1)
=============================================================================
